---- MODULE Spec2Model ----
(***************************************************************************)
(* TAMTAP attendance store: the MongoDB-primary / JSON-cache Database of   *)
(* hardware/database.py, the registration flow that allocates sequence     *)
(* ids, and the two threads of control that use it (the scan path and the  *)
(* background reconnect loop).                                             *)
(*                                                                         *)
(* Every method of Database starts with _check_mongodb, which may          *)
(* reconnect and run a push-then-pull cycle before the method's own body.  *)
(* A method is therefore a sequence of steps of its thread:                *)
(*   check -> [push_load -> push_att* -> push_ids -> push_save ->          *)
(*             pull_load -> pull_fetch -> pull_save -> synced]             *)
(*         -> body -> ret                                                  *)
(* Every remote call of a step succeeds or raises; it can only succeed     *)
(* while the remote store is reachable (net).                              *)
(***************************************************************************)
EXTENDS Integers, Sequences, FiniteSets, TLC

\* ---------------------------------------------------------------- bounds
MaxDay == 2
MaxCopies == 2
MaxPending == 2
MaxId == 2
MaxOps == 2

\* ------------------------------------------------------------- universes
Keys == {"k1", "k2"}
Roles == {"student", "teacher"}
Threads == {"main", "bg"}
NoKey == "-"

\* An attendance record, reduced to what the dedup logic reads: the badge
\* key and the first ten characters of its date (the calendar day).
Events == [nfc_id : Keys, date : 1..MaxDay]

Event(k, d) == [nfc_id |-> k, date |-> d]

\* An identity table: badge key -> tamtap_id, 0 when the key is absent.
NoUsers == [k \in Keys |-> 0]

_empty_structure ==
    [students |-> NoUsers, teachers |-> NoUsers,
     attendance |-> <<>>, pending_attendance |-> <<>>,
     next_tamtap_id |-> 1, last_sync |-> 0]

NoFrame ==
    [op |-> "none", key |-> NoKey, role |-> "student", tid |-> 0,
     phase |-> 0, conn |-> FALSE, ret |-> "none", manual |-> 0]

\* The button handlers: on_start_pressed, on_restart_pressed and the pair
\* on_shutdown_held / on_shutdown_released.
Handlers == {"start", "restart", "shutdown"}

\* The button controller after main(): no handler runs, action_lock is
\* free, shutdown_press_start is 0.0. The clock counts half seconds and
\* time() is never 0. down_at and real_held are the moment the SHUTDOWN
\* button went down and the time it stayed down; active and stopped are
\* what is_service_active and run_systemctl("stop") answered to the
\* running shutdown handler; halted is set once "shutdown now" went through.
NoButtons ==
    [action_lock |-> "free", at |-> [h \in Handlers |-> "idle"],
     pressed |-> FALSE, shutdown_press_start |-> 0, clock |-> 1,
     down_at |-> 0, real_held |-> 0, held_duration |-> 0,
     service |-> FALSE, active |-> FALSE, stopped |-> FALSE,
     ignored |-> {}, halted |-> FALSE]

\* archive_records is not running.
NoArchive ==
    [stage |-> "none", filter |-> NoKey, records |-> {},
     success_mongo |-> FALSE, success_json |-> FALSE]

\* process_card is not running: the main loop polls the reader.
NoScan ==
    [stage |-> "none", key |-> NoKey, found |-> FALSE, fresh |-> FALSE,
     face |-> FALSE, photo |-> FALSE]

\* A clock string "HH:MM" or "HH:MM:SS" is the sequence of its numbers;
\* the empty string (and a missing value) is the empty sequence.
NoTime == <<>>

DEFAULT_START_TIME == <<7, 0>>
DEFAULT_END_TIME == <<17, 0>>
DEFAULT_GRACE_PERIOD == 20
DEFAULT_ABSENT_THRESHOLD == 60
EARLY_BUFFER_MINUTES == 30

\* What fetch_section_schedule answers: None (fetched is FALSE), or the
\* API's answer: today's schedule (today is FALSE when it is null) with
\* its start and end, the grace period and the absent threshold.
NoSchedule ==
    [fetched |-> FALSE, today |-> FALSE, start |-> NoTime, end |-> NoTime,
     grace |-> DEFAULT_GRACE_PERIOD, absent |-> DEFAULT_ABSENT_THRESHOLD]

\* The schedule made of the defaults.
DefaultSchedule ==
    [fetched |-> TRUE, today |-> TRUE, start |-> DEFAULT_START_TIME,
     end |-> DEFAULT_END_TIME, grace |-> DEFAULT_GRACE_PERIOD,
     absent |-> DEFAULT_ABSENT_THRESHOLD]

\* time_to_minutes: hours * 60 + minutes of "HH:MM[:SS]"; the seconds are
\* not read. 0 for an empty value.
time_to_minutes(time_str) ==
    IF time_str = NoTime
    THEN 0
    ELSE time_str[1] * 60 + (IF Len(time_str) > 1 THEN time_str[2] ELSE 0)

\* validate_tap_time: "admit" stands for (True, None, schedule).
validate_tap_time(arrival_time_str, sd) ==
    LET arrival_minutes == time_to_minutes(arrival_time_str)
        start_minutes == time_to_minutes(sd.start)
        end_minutes == IF sd.end # NoTime THEN time_to_minutes(sd.end)
                       ELSE start_minutes + 600
    IN IF ~sd.fetched THEN "admit"
       ELSE IF ~sd.today \/ sd.start = NoTime THEN "NO_CLASSES_TODAY"
       ELSE IF arrival_minutes < start_minutes - EARLY_BUFFER_MINUTES THEN "TOO_EARLY"
       ELSE IF arrival_minutes > end_minutes THEN "CLASSES_ENDED"
       ELSE "admit"

\* calculate_attendance_status: the schedule's start, grace period and
\* absent threshold when a schedule for today was fetched, the defaults
\* otherwise.
calculate_attendance_status(arrival_time_str, sd) ==
    LET arrival_minutes == time_to_minutes(arrival_time_str)
        given == sd.fetched /\ sd.today
        start_time == IF given /\ sd.start # NoTime THEN sd.start ELSE DEFAULT_START_TIME
        grace_period == IF given THEN sd.grace ELSE DEFAULT_GRACE_PERIOD
        absent_threshold == IF given THEN sd.absent ELSE DEFAULT_ABSENT_THRESHOLD
        start_minutes == time_to_minutes(start_time)
        late_cutoff == start_minutes + grace_period
        absent_cutoff == start_minutes + absent_threshold
    IN IF arrival_minutes <= late_cutoff THEN "on_time"
       ELSE IF arrival_minutes <= absent_cutoff THEN "late"
       ELSE "absent"

\* The schedules the classifier is applied to.
Schedules ==
    {NoSchedule,
     [fetched |-> TRUE, today |-> FALSE, start |-> NoTime, end |-> NoTime,
      grace |-> 15, absent |-> 45]}
    \cup {[fetched |-> TRUE, today |-> TRUE, start |-> st, end |-> en,
           grace |-> g, absent |-> 60] :
            st \in {<<7, 0>>, <<7, 30>>}, en \in {<<17, 0>>, NoTime}, g \in {20, 0}}

VARIABLES
    net,        \* the remote store is reachable
    today,      \* the civil day of datetime.now()
    sched,      \* "steady": operations are atomic and the connection changes only between them;
                \* "atomic": operations are atomic, each remote call may raise on its own;
                \* "free": the threads interleave, each remote call may raise on its own
    use_mongodb,\* Database.use_mongodb
    mongo,      \* remote store: students, teachers (key -> id), attendance (event -> copies)
    file,       \* the JSON cache file: the whole snapshot
    pc,         \* position of each thread
    after,      \* where a thread continues once its sync cycle is over
    frame,      \* the scan path's current call: operation, arguments, result
    data,       \* each thread's loaded snapshot (the local variable data of push and pull)
    idx,        \* each thread's position in the pending list during a push
    still_pending, \* each thread's still_pending list during a push
    kept,       \* indices of the pending records whose remote call failed in the running push
    admitted,   \* events for which save_attendance has returned True
    offline_reg,\* badge keys registered while disconnected and not deleted since
    budget,     \* operations the scan path may still start (-1: no limit)
    badges,     \* the badge keys in circulation
    current_state, \* tamtap.py's global current_state
    scan,       \* process_card: the card, the position and what the scan has found so far
    arrival,    \* the clock reading of the tap, <<hours, minutes, seconds>>
    schedule_data, \* what fetch_section_schedule answers for the tap
    status,     \* the status calculate_attendance_status returned last
    decline,    \* the decision validate_tap_time returned last
    stop,       \* Database._stop_reconnect is set
    disk_faults,\* the open or the json.dump of _save_json may raise
    json_kind,  \* what is at Database.json_file: "ok", "missing", "truncated", "not_object"
    issued_max, \* the largest id get_next_tamtap_id has returned so far
    btn,        \* the button controller: its lock, its handlers, the clock and the service
    arch        \* archive_records: its position, filter, records and results

vars == <<net, today, sched, use_mongodb, mongo, file, pc, after, frame,
          data, idx, still_pending, kept, admitted, offline_reg, budget, badges,
          current_state, scan, arrival, schedule_data, status, decline,
          stop, disk_faults, json_kind, issued_max, btn, arch>>

aux == <<stop, disk_faults, json_kind, issued_max, btn, arch>>

tap == <<current_state, scan, arrival, schedule_data, status, decline>>

hist == <<admitted, offline_reg>>
env == <<net, today, sched, budget, badges>>
locals == <<data, idx, still_pending, kept>>

\* No card is being processed and no tap has been classified.
TapIdle ==
    /\ current_state = "IDLE"
    /\ scan = NoScan
    /\ arrival = <<7, 0, 0>>
    /\ schedule_data = NoSchedule
    /\ status = "none"
    /\ decline = "none"

\* The reconnect loop runs, the disk takes every write, the JSON file is
\* well-formed and no id has been handed out.
AuxIdle ==
    /\ stop = FALSE
    /\ disk_faults = FALSE
    /\ json_kind = "ok"
    /\ issued_max = 0
    /\ btn = NoButtons
    /\ arch = NoArchive

\* ------------------------------------------------------------- helpers
\* The outcomes a remote call can have now: it raises when the store is
\* unreachable and may raise (a timeout) when it is reachable.
Steady == sched = "steady"

CallOutcomes ==
    IF ~net THEN {FALSE} ELSE IF Steady THEN {TRUE} ELSE {TRUE, FALSE}

\* The subsets of a set of remote calls that can go through.
Passing(S) == IF ~net THEN {{}} ELSE IF Steady THEN {S} ELSE SUBSET S

\* record in list with the same nfc_id and date[:10]
InList(seq, k, d) ==
    \E i \in 1..Len(seq) : seq[i].nfc_id = k /\ seq[i].date = d

\* The JSON part of is_already_logged_today: attendance and pending.
LocalLogged(f, k, d) ==
    InList(f.attendance, k, d) \/ InList(f.pending_attendance, k, d)

InsertAttendance(m, e) ==
    [m EXCEPT !.attendance[e] = @ + 1]

Other(t) == IF t = "main" THEN "bg" ELSE "main"

\* A thread is between two Database methods: the scan path before a call
\* or between the calls of register_user, the loop in its wait.
Idle(t) ==
    IF t = "main"
    THEN pc[t] = "idle" \/ (pc[t] = "check" /\ frame.op = "register")
    ELSE pc[t] = "wait"

\* Under the atomic schedule an operation starts only while the other
\* thread is between operations.
MayStart(t) == sched # "free" => Idle(Other(t))

\* Under the steady schedule the connection changes between operations.
MayChange == Steady => (Idle("main") /\ Idle("bg"))

\* What a call of _save_json can do to the file: write it, fail in open()
\* and leave it as it was, or fail in json.dump after open() emptied it.
\* Without disk faults every write goes through.
WriteOutcomes ==
    IF disk_faults THEN {"written", "refused", "truncated"} ELSE {"written"}

\* The file as _load_json reads it after _save_json(new) over old; the
\* exception is swallowed. A file cut short in the middle of the dump does
\* not parse, and _load_json answers _empty_structure for it.
_save_json(old, new, w) ==
    CASE w = "written" -> new
      [] w = "refused" -> old
      [] w = "truncated" -> _empty_structure

\* The keys _load_json fills in when an object lacks them.
RequiredKeys ==
    {"students", "teachers", "attendance", "pending_attendance", "next_tamtap_id"}

\* data.setdefault(key, ...) for the four collections and next_tamtap_id.
SetDefaults(content) ==
    [k \in (DOMAIN content) \cup RequiredKeys |->
        IF k \in DOMAIN content THEN content[k] ELSE _empty_structure[k]]

\* The JSON file as the file system holds it: "missing", "unreadable",
\* "truncated" (cut short or otherwise not JSON), "not_object" (JSON that
\* is not an object) or "object".
\* _load_json without its try/except: open() raises on a file that cannot
\* be read, json.load on text that is not JSON, setdefault on a value that
\* is not a dict.
_load_json_unguarded(kind, content) ==
    IF kind = "missing"
    THEN [raised |-> FALSE, data |-> _empty_structure]
    ELSE IF kind = "object"
    THEN [raised |-> FALSE, data |-> SetDefaults(content)]
    ELSE [raised |-> TRUE, data |-> _empty_structure]

\* _load_json: the object with its defaults when the file exists and
\* parses; _empty_structure when it does not exist or anything was raised.
_load_json(kind, content) ==
    IF kind = "missing"
    THEN [raised |-> FALSE, data |-> _empty_structure]
    ELSE IF kind \in {"unreadable", "truncated", "not_object"}
    THEN [raised |-> FALSE, data |-> _empty_structure]
    ELSE [raised |-> FALSE, data |-> SetDefaults(content)]

\* ------------------------------------------------------------------ Init
\* A pull that takes the whole cache from the remote store.
PullResult_replace(d, m, now) ==
    [d EXCEPT !.students = m.students, !.teachers = m.teachers,
              !.pending_attendance = <<>>, !.last_sync = now]

\* A pull that keeps the local identities the remote collections lack.
PullResult_merge(d, m, now) ==
    [d EXCEPT !.students = [k \in Keys |-> IF m.students[k] # 0 THEN m.students[k] ELSE @[k]],
              !.teachers = [k \in Keys |-> IF m.teachers[k] # 0 THEN m.teachers[k] ELSE @[k]],
              !.last_sync = now]

\* data["students"] = mongo_students; data["teachers"] = mongo_teachers;
\* data["last_sync"] = now
PullResult(d, m, now) ==
    [d EXCEPT !.students = m.students, !.teachers = m.teachers,
              !.last_sync = now]

\* __init__ on a new installation under schedule s: _ensure_json_exists,
\* then _connect_mongodb, whose push finds nothing and whose pull stamps
\* last_sync.
InitStores(s) ==
    /\ sched = s
    /\ net \in BOOLEAN
    /\ today = 1
    /\ mongo = [students |-> NoUsers, teachers |-> NoUsers,
                attendance |-> [e \in Events |-> 0]]
    /\ use_mongodb \in CallOutcomes
    /\ \E ok \in (IF use_mongodb THEN CallOutcomes ELSE {FALSE}) :
         file = IF ok THEN PullResult(_empty_structure, mongo, today)
                ELSE _empty_structure
    /\ pc = [t \in Threads |-> IF t = "main" THEN "idle" ELSE "wait"]
    /\ after = [t \in Threads |-> "none"]
    /\ frame = NoFrame
    /\ data = [t \in Threads |-> _empty_structure]
    /\ idx = [t \in Threads |-> 0]
    /\ still_pending = [t \in Threads |-> <<>>]
    /\ kept = [t \in Threads |-> {}]
    /\ admitted = {}
    /\ offline_reg = {}

InitCommon(s) == InitStores(s) /\ TapIdle /\ AuxIdle

\* A scenario: its operations may be repeated without limit.
Init == InitCommon("atomic") /\ budget = -1 /\ badges = {"k1"}

InitSteady == InitCommon("steady") /\ budget = -1 /\ badges = {"k1"}

InitTwo == InitCommon("atomic") /\ budget = -1 /\ badges = Keys

InitFree == InitCommon("free") /\ budget = -1 /\ badges = {"k1"}

\* ----------------------------------------------------------- environment
NetDown ==
    /\ net
    /\ MayChange
    /\ net' = FALSE
    /\ UNCHANGED tap
    /\ UNCHANGED aux
    /\ UNCHANGED <<today, sched, use_mongodb, mongo, file, pc, after, frame,
                   data, idx, still_pending, kept, hist, budget, badges>>

NetUp ==
    /\ ~net
    /\ MayChange
    /\ net' = TRUE
    /\ UNCHANGED tap
    /\ UNCHANGED aux
    /\ UNCHANGED <<today, sched, use_mongodb, mongo, file, pc, after, frame,
                   data, idx, still_pending, kept, hist, budget, badges>>

\* Midnight passes between two scans.
NextDay ==
    /\ today < MaxDay
    /\ pc["main"] = "idle"
    /\ today' = today + 1
    /\ UNCHANGED tap
    /\ UNCHANGED aux
    /\ UNCHANGED <<net, sched, use_mongodb, mongo, file, pc, after, frame,
                   data, idx, still_pending, kept, hist, budget, badges>>

\* ------------------------------------------------- thread-local plumbing
Goto(t, l) == pc' = [pc EXCEPT ![t] = l]

ResetLocals(t) ==
    /\ data' = [data EXCEPT ![t] = _empty_structure]
    /\ idx' = [idx EXCEPT ![t] = 0]
    /\ still_pending' = [still_pending EXCEPT ![t] = <<>>]
    /\ kept' = [kept EXCEPT ![t] = {}]

\* ------------------------------------------------- SYNC: PUSH (JSON -> MongoDB)
\* _push_pending_to_mongodb, entry: the guard and data = self._load_json().
PushLoad(t) ==
    /\ pc[t] = "push_load"
    /\ IF ~use_mongodb
       THEN /\ Goto(t, "pull_load")
            /\ UNCHANGED locals
       ELSE /\ Goto(t, "push_att")
            /\ data' = [data EXCEPT ![t] = file]
            /\ idx' = [idx EXCEPT ![t] = 1]
            /\ still_pending' = [still_pending EXCEPT ![t] = <<>>]
            /\ kept' = [kept EXCEPT ![t] = {}]
    /\ UNCHANGED tap
    /\ UNCHANGED aux
    /\ UNCHANGED <<env, use_mongodb, mongo, file, after, frame, hist>>

\* A push iteration that inserts without looking for the record first.
PushRecord_unchecked(m, rec, ok) == IF ok THEN InsertAttendance(m, rec) ELSE m

\* One iteration of "for record in pending": find_one, insert_one when the
\* record is absent; on an exception the record goes to still_pending.
PushRecord(m, rec, ok) ==
    IF ok /\ m.attendance[rec] = 0 THEN InsertAttendance(m, rec) ELSE m

\* still_pending that keeps every record, pushed or not.
StillPending_all(still, rec, ok) == Append(still, rec)

\* except Exception: still_pending.append(record)
StillPending(still, rec, ok) == IF ok THEN still ELSE Append(still, rec)

\* With the threads interleaved the iteration is two remote calls: this
\* step is find_one, and when it answers None the thread is left before
\* its insert_one ("push_ins").
PushAtt(t) ==
    /\ pc[t] = "push_att"
    /\ idx[t] <= Len(data[t].pending_attendance)
    /\ \E ok \in CallOutcomes :
         LET rec == data[t].pending_attendance[idx[t]] IN
         IF sched = "free" /\ ok /\ mongo.attendance[rec] = 0
         THEN /\ Goto(t, "push_ins")
              /\ UNCHANGED <<mongo, still_pending, kept, idx, frame>>
         ELSE /\ mongo' = PushRecord(mongo, rec, ok)
              /\ still_pending' = [still_pending EXCEPT ![t] = StillPending(@, rec, ok)]
              /\ kept' = [kept EXCEPT ![t] = IF ok THEN @ ELSE @ \cup {idx[t]}]
              /\ idx' = [idx EXCEPT ![t] = @ + 1]
              /\ UNCHANGED <<pc, frame>>
    /\ UNCHANGED tap
    /\ UNCHANGED aux
    /\ UNCHANGED <<env, use_mongodb, file, after, data, hist>>

\* insert_one(record) of a thread whose find_one answered None.
PushInsert(t) ==
    /\ pc[t] = "push_ins"
    /\ \E ok \in CallOutcomes :
         LET rec == data[t].pending_attendance[idx[t]] IN
         /\ mongo' = IF ok THEN InsertAttendance(mongo, rec) ELSE mongo
         /\ still_pending' = [still_pending EXCEPT ![t] = StillPending(@, rec, ok)]
         /\ kept' = [kept EXCEPT ![t] = IF ok THEN @ ELSE @ \cup {idx[t]}]
    /\ idx' = [idx EXCEPT ![t] = @ + 1]
    /\ Goto(t, "push_att")
    /\ UNCHANGED tap
    /\ UNCHANGED aux
    /\ UNCHANGED <<env, use_mongodb, file, after, frame, data, hist>>

\* The identities of a local table that the remote collection lacks.
Missing(localTable, remoteTable) ==
    {k \in Keys : localTable[k] # 0 /\ remoteTable[k] = 0}

InsertUsers(remoteTable, localTable, ks) ==
    [k \in Keys |-> IF k \in ks THEN localTable[k] ELSE remoteTable[k]]

\* "Push students not in MongoDB", "Push teachers not in MongoDB": each
\* find_one/insert_one pair has its own try; a pair that raises is skipped.
PushIds(t) ==
    /\ pc[t] = "push_att"
    /\ idx[t] > Len(data[t].pending_attendance)
    /\ LET ms == Missing(data[t].students, mongo.students)
           mt == Missing(data[t].teachers, mongo.teachers)
       IN \E okS \in Passing(ms), okT \in Passing(mt) :
            /\ mongo' = [mongo EXCEPT
                           !.students = InsertUsers(@, data[t].students, okS),
                           !.teachers = InsertUsers(@, data[t].teachers, okT)]
            /\ UNCHANGED frame
    /\ Goto(t, "push_save")
    /\ UNCHANGED tap
    /\ UNCHANGED aux
    /\ UNCHANGED <<env, use_mongodb, file, after, locals, hist>>

\* data["pending_attendance"] = still_pending; self._save_json(data)
PushSave(t) ==
    /\ pc[t] = "push_save"
    /\ \E w \in WriteOutcomes :
         file' = _save_json(file, [data[t] EXCEPT !.pending_attendance = still_pending[t]], w)
    /\ Goto(t, "pull_load")
    /\ ResetLocals(t)
    /\ UNCHANGED tap
    /\ UNCHANGED aux
    /\ UNCHANGED <<env, use_mongodb, mongo, after, frame, hist>>

\* ------------------------------------------------- SYNC: PULL (MongoDB -> JSON)
\* _pull_from_mongodb, entry: the guard and data = self._load_json().
PullLoad(t) ==
    /\ pc[t] = "pull_load"
    /\ IF ~use_mongodb
       THEN /\ Goto(t, after[t])
            /\ UNCHANGED data
       ELSE /\ Goto(t, "pull_fetch")
            /\ data' = [data EXCEPT ![t] = file]
    /\ UNCHANGED tap
    /\ UNCHANGED aux
    /\ UNCHANGED <<env, use_mongodb, mongo, file, after, frame,
                   idx, still_pending, kept, hist>>

\* A pull that goes on to its save with the students it has read when the
\* teachers cursor raised.
PullFetched_partial(d, m, now, okS, okT) ==
    [saves |-> okS,
     data |-> IF okS /\ okT THEN PullResult(d, m, now)
              ELSE [d EXCEPT !.students = m.students]]

\* students.find({}) and teachers.find({}): when both answer, data gets the
\* two tables and last_sync and the pull goes on to its save; when one
\* raises, the except ends the pull.
PullFetched(d, m, now, okS, okT) ==
    [saves |-> okS /\ okT,
     data |-> IF okS /\ okT THEN PullResult(d, m, now) ELSE d]

\* Both find({}) cursors and the update of data; an exception ends the
\* pull with the file as it is.
PullFetch(t) ==
    /\ pc[t] = "pull_fetch"
    /\ \E okS \in CallOutcomes, okT \in CallOutcomes :
         LET got == PullFetched(data[t], mongo, today, okS, okT) IN
         IF got.saves
         THEN /\ data' = [data EXCEPT ![t] = got.data]
              /\ Goto(t, "pull_save")
              /\ UNCHANGED <<idx, still_pending, kept>>
         ELSE /\ Goto(t, after[t])
              /\ ResetLocals(t)
    /\ UNCHANGED tap
    /\ UNCHANGED aux
    /\ UNCHANGED <<env, use_mongodb, mongo, file, after, frame, hist>>

\* self._save_json(data)
PullSave(t) ==
    /\ pc[t] = "pull_save"
    /\ \E w \in WriteOutcomes : file' = _save_json(file, data[t], w)
    /\ Goto(t, after[t])
    /\ ResetLocals(t)
    /\ UNCHANGED tap
    /\ UNCHANGED aux
    /\ UNCHANGED <<env, use_mongodb, mongo, after, frame, hist>>

\* ------------------------------------------------- scan path: calls
\* The scan path calls a method of Database.
Call(op, k, r) ==
    /\ pc["main"] = "idle"
    /\ MayStart("main")
    /\ budget # 0
    /\ budget' = IF budget > 0 THEN budget - 1 ELSE budget
    /\ frame' = [NoFrame EXCEPT !.op = op, !.key = k, !.role = r, !.phase = 1]
    /\ Goto("main", "check")
    /\ UNCHANGED tap
    /\ UNCHANGED aux
    /\ UNCHANGED <<net, today, sched, badges, use_mongodb, mongo, file, after, locals, hist>>

CallIsLogged == \E k \in badges : Call("is_already_logged_today", k, "student")

CallSave ==
    \E k \in badges :
        /\ Len(file.pending_attendance) < MaxPending
        /\ mongo.attendance[Event(k, today)] < MaxCopies
        /\ Call("save_attendance", k, "student")

CallForceSync == Call("force_sync", NoKey, "student")

\* A liveness probe that leaves use_mongodb as it was when the ping raised.
AfterProbe_sticky(connected, ok) == connected

\* The ping of a connected Database: use_mongodb stays set when it
\* answers and is cleared when it raises.
AfterProbe(connected, ok) == IF ok THEN connected ELSE FALSE

\* _check_mongodb: a ping when use_mongodb is set (a failed ping clears
\* it), else _connect_mongodb, which on success sets use_mongodb and runs
\* push then pull before it returns True.
Check ==
    /\ pc["main"] = "check"
    /\ MayStart("main")
    /\ \E ok \in CallOutcomes :
         /\ use_mongodb' = IF use_mongodb THEN AfterProbe(use_mongodb, ok) ELSE ok
         /\ frame' = [frame EXCEPT !.conn = ok]
         /\ IF ok /\ ~use_mongodb
            THEN /\ Goto("main", "push_load")
                 /\ after' = [after EXCEPT !["main"] = "synced"]
            ELSE /\ Goto("main", "body")
                 /\ UNCHANGED after
    /\ UNCHANGED tap
    /\ UNCHANGED aux
    /\ UNCHANGED <<env, mongo, file, locals, hist>>

\* _connect_mongodb returns True to _check_mongodb, which returns True.
Synced ==
    /\ pc["main"] = "synced"
    /\ Goto("main", "body")
    /\ UNCHANGED tap
    /\ UNCHANGED aux
    /\ UNCHANGED <<env, use_mongodb, mongo, file, after, frame, locals, hist>>

\* ------------------------------------------------- ATTENDANCE OPERATIONS
\* is_already_logged_today after its _check_mongodb: the remote find_one
\* when connected (an exception is logged), then the JSON lists.
IsLoggedResult(conn, ok, m, f, k, d) ==
    IF conn /\ ok /\ m.attendance[Event(k, d)] > 0
    THEN TRUE
    ELSE LocalLogged(f, k, d)

IsLoggedBody ==
    /\ pc["main"] = "body"
    /\ frame.op = "is_already_logged_today"
    /\ \E ok \in (IF frame.conn THEN CallOutcomes ELSE {FALSE}) :
         frame' = [frame EXCEPT
                     !.ret = IF IsLoggedResult(frame.conn, ok, mongo, file,
                                               frame.key, today)
                             THEN "True" ELSE "False"]
    /\ Goto("main", "ret")
    /\ UNCHANGED tap
    /\ UNCHANGED aux
    /\ UNCHANGED <<env, use_mongodb, mongo, file, after, locals, hist>>

\* save_attendance, first part: if self.is_already_logged_today(nfc_id):
\* return False. Otherwise the record is built and _check_mongodb is
\* called again.
SaveCheckLogged ==
    /\ pc["main"] = "body"
    /\ frame.op = "save_attendance"
    /\ frame.phase = 1
    /\ \E ok \in (IF frame.conn THEN CallOutcomes ELSE {FALSE}) :
         IF IsLoggedResult(frame.conn, ok, mongo, file, frame.key, today)
         THEN /\ frame' = [frame EXCEPT !.ret = "False"]
              /\ Goto("main", "ret")
              /\ UNCHANGED status
         ELSE /\ frame' = [frame EXCEPT !.phase = 2]
              /\ status' = calculate_attendance_status(arrival, schedule_data)
              /\ Goto("main", "check")
    /\ UNCHANGED <<current_state, scan, arrival, schedule_data, decline>>
    /\ UNCHANGED aux
    /\ UNCHANGED <<env, use_mongodb, mongo, file, after, locals, hist>>

\* SaveLocal that drops the record when the remote insert did not happen.
SaveLocal_dropped(f, rec, inserted) ==
    IF inserted THEN [f EXCEPT !.attendance = Append(@, rec)] ELSE f

\* SaveLocal without the JSON backup of a record the remote store took.
SaveLocal_no_backup(f, rec, inserted) ==
    IF inserted THEN f ELSE [f EXCEPT !.pending_attendance = Append(@, rec)]

\* The JSON write of save_attendance: the attendance list after a remote
\* insert, the pending queue otherwise.
SaveLocal(f, rec, inserted) ==
    IF inserted
    THEN [f EXCEPT !.attendance = Append(@, rec)]
    ELSE [f EXCEPT !.pending_attendance = Append(@, rec)]

\* save_attendance, second part: insert_one and the backup when connected;
\* the pending queue when not connected or when insert_one raised.
SaveBody ==
    /\ pc["main"] = "body"
    /\ frame.op = "save_attendance"
    /\ frame.phase = 2
    /\ \E ok \in (IF frame.conn THEN CallOutcomes ELSE {FALSE}) :
         LET rec == Event(frame.key, today) IN
         /\ mongo' = IF ok THEN InsertAttendance(mongo, rec) ELSE mongo
         /\ \E w \in WriteOutcomes :
              file' = _save_json(file, SaveLocal(file, rec, ok), w)
         /\ frame' = [frame EXCEPT !.ret = "True"]
    /\ Goto("main", "ret")
    /\ UNCHANGED tap
    /\ UNCHANGED aux
    /\ UNCHANGED <<env, use_mongodb, after, locals, hist>>

\* force_sync after its _check_mongodb: push then pull, return True; or
\* return False.
ForceSyncBody ==
    /\ pc["main"] = "body"
    /\ frame.op = "force_sync"
    /\ IF frame.conn
       THEN /\ frame' = [frame EXCEPT !.ret = "True"]
            /\ Goto("main", "push_load")
            /\ after' = [after EXCEPT !["main"] = "ret"]
       ELSE /\ frame' = [frame EXCEPT !.ret = "False"]
            /\ Goto("main", "ret")
            /\ UNCHANGED after
    /\ UNCHANGED tap
    /\ UNCHANGED aux
    /\ UNCHANGED <<env, use_mongodb, mongo, file, locals, hist>>

\* The method returns to the scan path.
ReturnToCaller ==
    /\ pc["main"] = "ret"
    /\ admitted' = IF frame.op = "save_attendance" /\ frame.ret = "True"
                   THEN admitted \cup {Event(frame.key, today)}
                   ELSE admitted
    /\ frame' = NoFrame
    /\ Goto("main", "idle")
    /\ UNCHANGED aux
    /\ UNCHANGED <<env, use_mongodb, mongo, file, after, locals, offline_reg>>

Return == ReturnToCaller /\ UNCHANGED tap

\* ------------------------------------------------- process_card
\* What process_card does alone, between two Database calls.
ScanLocal == UNCHANGED <<env, use_mongodb, mongo, file, pc, after, frame, locals, hist,
                         arrival, schedule_data, status, decline, aux>>

\* The main loop: read_card returns a card and process_card begins with
\* current_state = State.CARD_DETECTED.
ReadCard ==
    /\ scan.stage = "none"
    /\ pc["main"] = "idle"
    /\ \E k \in Keys : scan' = [NoScan EXCEPT !.stage = "lookup", !.key = k]
    /\ current_state' = "CARD_DETECTED"
    /\ arrival' \in {<<6, 0, 0>>, <<7, 0, 0>>}
    /\ schedule_data' \in {NoSchedule, DefaultSchedule}
    /\ UNCHANGED <<env, use_mongodb, mongo, file, pc, after, frame, locals, hist,
                   status, decline, aux>>

\* db.lookup_user(nfc_id)
ScanLookup ==
    /\ scan.stage = "lookup"
    /\ Call("get_user", scan.key, "student")

\* process_card that goes on with a card lookup_user did not find.
AfterLookup_unchecked(ret) == "logged"

\* if name is None: ... current_state = State.IDLE; return False
AfterLookup(ret) == IF ret = "None" THEN "none" ELSE "logged"

ScanLookupRet ==
    /\ scan.stage = "lookup"
    /\ frame.op = "get_user"
    /\ ReturnToCaller
    /\ IF AfterLookup(frame.ret) = "none"
       THEN scan' = NoScan /\ current_state' = "IDLE"
       ELSE /\ scan' = [scan EXCEPT !.stage = AfterLookup(frame.ret),
                                    !.found = (frame.ret # "None")]
            /\ UNCHANGED current_state
    /\ UNCHANGED <<arrival, schedule_data, status, decline>>

\* if db.is_already_logged_today(nfc_id):
ScanIsLogged ==
    /\ scan.stage = "logged"
    /\ Call("is_already_logged_today", scan.key, "student")

\* ... current_state = State.IDLE; return True. Otherwise
\* current_state = State.CAMERA_ACTIVE.
ScanIsLoggedRet ==
    /\ scan.stage = "logged"
    /\ frame.op = "is_already_logged_today"
    /\ ReturnToCaller
    /\ IF frame.ret = "True"
       THEN scan' = NoScan /\ current_state' = "IDLE"
       ELSE /\ scan' = [scan EXCEPT !.stage = "camera", !.fresh = TRUE]
            /\ current_state' = "CAMERA_ACTIVE"
    /\ UNCHANGED <<arrival, schedule_data, status, decline>>

\* detect_person: without a face current_state = State.FAIL.
ScanDetect ==
    /\ scan.stage = "camera"
    /\ pc["main"] = "idle"
    /\ \E face_detected \in BOOLEAN :
         IF face_detected
         THEN /\ scan' = [scan EXCEPT !.stage = "photo", !.face = TRUE]
              /\ UNCHANGED current_state
         ELSE /\ scan' = [scan EXCEPT !.stage = "fail"]
              /\ current_state' = "FAIL"
    /\ ScanLocal

\* no_face_state(); notify_attendance_fail(...); current_state = State.IDLE
ScanFail ==
    /\ scan.stage = "fail"
    /\ pc["main"] = "idle"
    /\ scan' = NoScan
    /\ current_state' = "IDLE"
    /\ ScanLocal

\* take_attendance_photo: without a photo current_state = State.IDLE and
\* return False.
ScanPhoto ==
    /\ scan.stage = "photo"
    /\ pc["main"] = "idle"
    /\ \E photo_path \in BOOLEAN :
         IF photo_path
         THEN /\ scan' = [scan EXCEPT !.stage = "save", !.photo = TRUE]
              /\ UNCHANGED current_state
         ELSE /\ scan' = NoScan
              /\ current_state' = "IDLE"
    /\ ScanLocal

\* db.save_attendance_record(nfc_id, name, role, photo_path, user_data)
ScanSave ==
    /\ scan.stage = "save"
    /\ Len(file.pending_attendance) < MaxPending
    /\ mongo.attendance[Event(scan.key, today)] < MaxCopies
    /\ Call("save_attendance", scan.key, "student")

\* True: current_state = State.SUCCESS. False: the warning, then
\* current_state = State.IDLE and return True.
ScanSaveRet ==
    /\ scan.stage = "save"
    /\ frame.op = "save_attendance"
    /\ ReturnToCaller
    /\ IF frame.ret = "True"
       THEN /\ scan' = [scan EXCEPT !.stage = "success"]
            /\ current_state' = "SUCCESS"
       ELSE scan' = NoScan /\ current_state' = "IDLE"
    /\ UNCHANGED <<arrival, schedule_data, status, decline>>

\* success_state(name); notify_attendance_success(...);
\* current_state = State.IDLE; return True
ScanSuccess ==
    /\ scan.stage = "success"
    /\ pc["main"] = "idle"
    /\ scan' = NoScan
    /\ current_state' = "IDLE"
    /\ ScanLocal

\* A call of process_card outside a try block raises (GPIO.output in
\* led_on, led_off and beep; os.makedirs in take_attendance_photo): the
\* main loop's except logs the error, resets the reader and polls again.
ScanRaise ==
    /\ scan.stage \in {"lookup", "camera", "photo", "fail", "success"}
    /\ pc["main"] = "idle"
    /\ scan' = NoScan
    /\ UNCHANGED current_state
    /\ ScanLocal

\* ------------------------------------------------- BACKGROUND RECONNECT
\* A wait that does not look at the stop event.
WaitReturns_ignored(stop_set) == "cycle"

\* self._stop_reconnect.wait(timeout=...): True, and the loop breaks, when
\* the event is set; False, and a cycle begins, when the interval is over.
WaitReturns(stop_set) == IF stop_set THEN "break" ELSE "cycle"

\* A reconnect whose exception leaves the loop.
LoopExcept_raise(ok, next) == IF ok THEN next ELSE "stopped"

\* try/except Exception around the reconnect: the loop goes on with next
\* when nothing was raised and back to its wait otherwise.
LoopExcept(ok, next) == IF ok THEN next ELSE "wait"

\* _reconnect_loop: the wait of one interval returns.
BgWake ==
    /\ pc["bg"] = "wait"
    /\ MayStart("bg")
    /\ Goto("bg", IF WaitReturns(stop) = "break" THEN "stopped"
                  ELSE IF use_mongodb THEN "probe" ELSE "reconnect")
    /\ UNCHANGED tap
    /\ UNCHANGED aux
    /\ UNCHANGED <<env, use_mongodb, mongo, file, after, frame, locals, hist>>

\* "Verify connection is still alive": ping; continue when it answers.
BgProbe ==
    /\ pc["bg"] = "probe"
    /\ \E ok \in CallOutcomes :
         /\ use_mongodb' = AfterProbe(use_mongodb, ok)
         /\ Goto("bg", IF ok THEN "wait" ELSE "reconnect")
    /\ UNCHANGED tap
    /\ UNCHANGED aux
    /\ UNCHANGED <<env, mongo, file, after, frame, locals, hist>>

\* "Attempt reconnect": a fresh client and a ping; on success use_mongodb
\* is set and push then pull run; any exception clears use_mongodb.
BgReconnect ==
    /\ pc["bg"] = "reconnect"
    /\ IF use_mongodb
       THEN /\ Goto("bg", "wait")
            /\ UNCHANGED <<use_mongodb, after>>
       ELSE \E ok \in CallOutcomes :
              /\ use_mongodb' = ok
              /\ Goto("bg", LoopExcept(ok, "push_load"))
              /\ after' = [after EXCEPT !["bg"] = "wait"]
    /\ UNCHANGED tap
    /\ UNCHANGED aux
    /\ UNCHANGED <<env, mongo, file, frame, locals, hist>>

\* ------------------------------------------------- USER OPERATIONS
CallGetUser == \E k \in badges : Call("get_user", k, "student")

\* The role under which a pair of identity tables resolves a badge key:
\* students first, then teachers.
\* A lookup that reads the students table only.
Lookup_students_only(students, teachers, k) ==
    IF students[k] # 0 THEN "student" ELSE "None"

Lookup(students, teachers, k) ==
    IF students[k] # 0 THEN "student"
    ELSE IF teachers[k] # 0 THEN "teacher"
    ELSE "None"

\* get_user after its _check_mongodb: the remote answer (also "not
\* found") when connected and no call raises, the JSON cache otherwise.
GetUserResult(conn, ok, m, f, k) ==
    IF conn /\ ok
    THEN Lookup(m.students, m.teachers, k)
    ELSE Lookup(f.students, f.teachers, k)

GetUserBody ==
    /\ pc["main"] = "body"
    /\ frame.op = "get_user"
    /\ \E ok \in (IF frame.conn THEN CallOutcomes ELSE {FALSE}) :
         frame' = [frame EXCEPT
                     !.ret = GetUserResult(frame.conn, ok, mongo, file, frame.key)]
    /\ Goto("main", "ret")
    /\ UNCHANGED tap
    /\ UNCHANGED aux
    /\ UNCHANGED <<env, use_mongodb, mongo, file, after, locals, hist>>

\* ------------------------------------------------- TAMTAP ID OPERATIONS
MaxOf(S) == IF S = {} THEN 0 ELSE CHOOSE x \in S : \A y \in S : y <= x

TableMax(students, teachers) ==
    MaxOf({students[k] : k \in Keys} \cup {teachers[k] : k \in Keys})

\* get_next_tamtap_id that adds one to the largest of the ids and the
\* stored next_tamtap_id.
NextTamtapId_plus_one(got, m, f) ==
    LET remoteS == IF "students" \in got THEN MaxOf({m.students[k] : k \in Keys}) ELSE 0
        remoteT == IF "teachers" \in got THEN MaxOf({m.teachers[k] : k \in Keys}) ELSE 0
    IN MaxOf({remoteS, remoteT, TableMax(f.students, f.teachers),
              f.next_tamtap_id}) + 1

\* get_next_tamtap_id that does not read the ids of the JSON tables.
NextTamtapId_no_json(got, m, f) ==
    LET remoteS == IF "students" \in got THEN MaxOf({m.students[k] : k \in Keys}) ELSE 0
        remoteT == IF "teachers" \in got THEN MaxOf({m.teachers[k] : k \in Keys}) ELSE 0
    IN MaxOf({MaxOf({remoteS, remoteT}) + 1, f.next_tamtap_id})

\* get_next_tamtap_id after its _check_mongodb: got is the set of $max
\* aggregates that answered before one raised (students first, then
\* teachers; an exception leaves max_id as it is), then the ids of the
\* JSON tables and the stored next_tamtap_id.
NextTamtapId(got, m, f) ==
    LET remoteS == IF "students" \in got THEN MaxOf({m.students[k] : k \in Keys}) ELSE 0
        remoteT == IF "teachers" \in got THEN MaxOf({m.teachers[k] : k \in Keys}) ELSE 0
        max_id == MaxOf({remoteS, remoteT, TableMax(f.students, f.teachers)})
    IN MaxOf({max_id + 1, f.next_tamtap_id})

\* The aggregates a call of get_next_tamtap_id can get through.
Aggregates(conn) ==
    IF ~(conn /\ net) THEN {{}}
    ELSE IF Steady THEN {{"students", "teachers"}}
    ELSE {{}, {"students"}, {"students", "teachers"}}

\* Largest id in use anywhere; registrations stop at MaxId.
HighestId ==
    MaxOf({TableMax(mongo.students, mongo.teachers),
           TableMax(file.students, file.teachers)})

\* ------------------------------------------------- registration flow
\* register_user: user_exists(nfc_id), get_next_tamtap_id(), add_user().
CallRegister ==
    \E k \in badges, r \in Roles :
        /\ HighestId < MaxId
        /\ Call("register", k, r)

\* "Check if NFC ID already exists": user_exists is get_user is not None.
RegisterExists ==
    /\ pc["main"] = "body"
    /\ frame.op = "register"
    /\ frame.phase = 1
    /\ \E ok \in (IF frame.conn THEN CallOutcomes ELSE {FALSE}) :
         IF GetUserResult(frame.conn, ok, mongo, file, frame.key) # "None"
         THEN /\ frame' = [frame EXCEPT !.ret = "DuplicateKey"]
              /\ Goto("main", "ret")
         ELSE /\ frame' = [frame EXCEPT !.phase = 2]
              /\ Goto("main", "check")
    /\ UNCHANGED tap
    /\ UNCHANGED aux
    /\ UNCHANGED <<env, use_mongodb, mongo, file, after, locals, hist>>

\* next_id = db.get_next_tamtap_id(); Enter accepts it.
RegisterNextId ==
    /\ pc["main"] = "body"
    /\ frame.op = "register"
    /\ frame.phase = 2
    /\ \E got \in Aggregates(frame.conn) :
         frame' = [frame EXCEPT !.tid = NextTamtapId(got, mongo, file),
                                !.phase = IF frame.manual = 0 THEN 3 ELSE 4]
    /\ issued_max' = MaxOf({issued_max, frame'.tid})
    /\ Goto("main", "check")
    /\ UNCHANGED tap
    /\ UNCHANGED <<stop, disk_faults, json_kind, btn, arch>>
    /\ UNCHANGED <<env, use_mongodb, mongo, file, after, locals, hist>>

\* A call of get_next_tamtap_id alone.
CallGetNext == Call("get_next_tamtap_id", NoKey, "student")

GetNextBody ==
    /\ pc["main"] = "body"
    /\ frame.op = "get_next_tamtap_id"
    /\ \E got \in Aggregates(frame.conn) :
         frame' = [frame EXCEPT !.tid = NextTamtapId(got, mongo, file),
                                !.ret = "True"]
    /\ issued_max' = MaxOf({issued_max, frame'.tid})
    /\ Goto("main", "ret")
    /\ UNCHANGED tap
    /\ UNCHANGED <<stop, disk_faults, json_kind, btn, arch>>
    /\ UNCHANGED <<env, use_mongodb, mongo, file, after, locals, hist>>

\* register_user with a typed TAMTAP ID instead of the proposed one.
CallRegisterManual ==
    \E k \in badges, r \in Roles, id \in 1..MaxId :
        /\ pc["main"] = "idle"
        /\ MayStart("main")
        /\ budget # 0
        /\ budget' = IF budget > 0 THEN budget - 1 ELSE budget
        /\ frame' = [NoFrame EXCEPT !.op = "register", !.key = k, !.role = r,
                                    !.phase = 1, !.manual = id]
        /\ Goto("main", "check")
        /\ UNCHANGED tap
        /\ UNCHANGED aux
        /\ UNCHANGED <<net, today, sched, badges, use_mongodb, mongo, file,
                       after, locals, hist>>

UsedIds(students, teachers) ==
    ({students[k] : k \in Keys} \cup {teachers[k] : k \in Keys}) \ {0}

\* tamtap_id_exists after its _check_mongodb: got is the set of remote
\* find_one calls that answered before one raised (the exception is
\* passed over), then the scan of the JSON tables.
TamtapIdExists(got, m, f, id) ==
    \/ "students" \in got /\ id \in UsedIds(m.students, NoUsers)
    \/ "teachers" \in got /\ id \in UsedIds(NoUsers, m.teachers)
    \/ id \in UsedIds(f.students, f.teachers)

\* "Check if already exists": a typed id in use is refused (the prompt is
\* shown again), any other is taken as the tamtap_id.
ManualIdBody ==
    /\ pc["main"] = "body"
    /\ frame.op = "register"
    /\ frame.phase = 4
    /\ \E got \in Aggregates(frame.conn) :
         IF TamtapIdExists(got, mongo, file, frame.manual)
         THEN /\ frame' = [frame EXCEPT !.ret = "IdExists"]
              /\ Goto("main", "ret")
         ELSE /\ frame' = [frame EXCEPT !.tid = frame.manual, !.phase = 3]
              /\ Goto("main", "check")
    /\ UNCHANGED tap
    /\ UNCHANGED aux
    /\ UNCHANGED <<env, use_mongodb, mongo, file, after, locals, hist>>

Table(r) == IF r = "student" THEN "students" ELSE "teachers"

\* insert_one into a collection whose nfc_id index is unique: a second
\* document for the key raises and leaves the collection as it is.
InsertUser(m, r, k, id) ==
    IF m[Table(r)][k] # 0 THEN m ELSE [m EXCEPT ![Table(r)][k] = id]

\* add_user after its _check_mongodb: insert_one when connected (an
\* exception is logged), then always the JSON write.
AddUserBody ==
    /\ pc["main"] = "body"
    /\ frame.op = "register"
    /\ frame.phase = 3
    /\ \E ok \in (IF frame.conn THEN CallOutcomes ELSE {FALSE}) :
         /\ mongo' = IF ok THEN InsertUser(mongo, frame.role, frame.key, frame.tid)
                     ELSE mongo
         /\ frame' = [frame EXCEPT !.ret = "True"]
    /\ \E w \in WriteOutcomes :
         file' = _save_json(file, [file EXCEPT ![Table(frame.role)][frame.key] = frame.tid], w)
    /\ offline_reg' = IF frame.conn THEN offline_reg ELSE offline_reg \cup {frame.key}
    /\ Goto("main", "ret")
    /\ UNCHANGED tap
    /\ UNCHANGED aux
    /\ UNCHANGED <<env, use_mongodb, after, locals, admitted>>

CallDelete == \E k \in badges : Call("delete_user", k, "student")

\* delete_one on students, on teachers when nothing was deleted.
DeleteRemote(m, k) ==
    IF m.students[k] # 0 THEN [m EXCEPT !.students[k] = 0]
    ELSE [m EXCEPT !.teachers[k] = 0]

\* del data["students"][k], elif del data["teachers"][k]
DeleteLocal(f, k) ==
    IF f.students[k] # 0 THEN [f EXCEPT !.students[k] = 0]
    ELSE [f EXCEPT !.teachers[k] = 0]

\* delete_user after its _check_mongodb.
DeleteBody ==
    /\ pc["main"] = "body"
    /\ frame.op = "delete_user"
    /\ \E ok \in (IF frame.conn THEN CallOutcomes ELSE {FALSE}) :
         /\ mongo' = IF ok THEN DeleteRemote(mongo, frame.key) ELSE mongo
         /\ frame' = [frame EXCEPT
                        !.ret = IF \/ (ok /\ Lookup(mongo.students, mongo.teachers, frame.key) # "None")
                                   \/ Lookup(file.students, file.teachers, frame.key) # "None"
                                THEN "True" ELSE "False"]
    /\ \E w \in WriteOutcomes :
         file' = _save_json(file, DeleteLocal(file, frame.key), w)
    /\ offline_reg' = offline_reg \ {frame.key}
    /\ Goto("main", "ret")
    /\ UNCHANGED tap
    /\ UNCHANGED aux
    /\ UNCHANGED <<env, use_mongodb, after, locals, admitted>>

SyncOf(t) ==
    \/ PushLoad(t) \/ PushAtt(t) \/ PushIds(t) \/ PushSave(t)
    \/ PullLoad(t) \/ PullFetch(t) \/ PullSave(t)

Sync == \E t \in Threads : SyncOf(t)

\* stop_reconnect: the stop event is set; the join waits two seconds at most.
StopReconnect ==
    /\ pc["main"] = "idle"
    /\ ~stop
    /\ stop' = TRUE
    /\ UNCHANGED tap
    /\ UNCHANGED <<disk_faults, json_kind, issued_max, btn, arch>>
    /\ UNCHANGED <<env, use_mongodb, mongo, file, pc, after, frame, locals, hist>>

NextAtt ==
    \/ NetDown \/ NetUp \/ NextDay
    \/ CallIsLogged \/ CallSave \/ CallForceSync
    \/ Check \/ Synced \/ IsLoggedBody \/ SaveCheckLogged \/ SaveBody
    \/ ForceSyncBody \/ Return
    \/ BgWake \/ BgProbe \/ BgReconnect
    \/ Sync

\* The attendance operations on a disk that may refuse a write.
InitDisk ==
    /\ InitStores("steady")
    /\ TapIdle
    /\ stop = FALSE
    /\ disk_faults = TRUE
    /\ json_kind = "ok"
    /\ issued_max = 0
    /\ btn = NoButtons
    /\ arch = NoArchive
    /\ budget = -1
    /\ badges = {"k1"}

SpecDisk == InitDisk /\ [][NextAtt]_vars

SpecAtt == Init /\ [][NextAtt]_vars

SpecSteady == InitSteady /\ [][NextAtt]_vars

\* The scan path and the reconnect loop with no exclusion between them.
NextConc ==
    \/ NetDown \/ NetUp
    \/ CallSave
    \/ Check \/ Synced \/ SaveCheckLogged \/ SaveBody \/ Return
    \/ BgWake \/ BgProbe \/ BgReconnect
    \/ Sync
    \/ \E t \in Threads : PushInsert(t)

SpecConc == InitFree /\ [][NextConc]_vars

\* The same with the shutdown. The reconnect thread is a thread of the
\* operating system and every remote call in it has a timeout, so a step it
\* can take is taken.
SpecStop == InitFree /\ [][(
        NextConc \/ StopReconnect
        )]_vars /\ WF_vars(BgWake \/ BgProbe \/ BgReconnect \/ SyncOf("bg") \/ PushInsert("bg"))

\* From here on the remote store answers every call: with both threads
\* between operations the schedule becomes the steady one.
Heal ==
    /\ sched # "steady"
    /\ net
    /\ Idle("main") /\ Idle("bg")
    /\ sched' = "steady"
    /\ UNCHANGED tap
    /\ UNCHANGED aux
    /\ UNCHANGED <<net, today, budget, badges, use_mongodb, mongo, file, pc, after,
                   frame, locals, hist>>

\* Taps and the reconnect loop, first with remote calls that may fail, then
\* healed. An operation that was called runs to its return, the reconnect
\* thread takes the steps it can take, and its timer fires again and again
\* between the operations of the scan path.
SpecHeal ==
    /\ Init
    /\ [][(
        \/ NetDown \/ NetUp \/ Heal
        \/ CallSave
        \/ Check \/ Synced \/ SaveCheckLogged \/ SaveBody \/ Return
        \/ BgWake \/ BgProbe \/ BgReconnect
        \/ Sync
        )]_vars
    /\ WF_vars(Check \/ Synced \/ SaveCheckLogged \/ SaveBody \/ Return \/ SyncOf("main"))
    /\ WF_vars(BgProbe \/ BgReconnect \/ SyncOf("bg"))
    /\ SF_vars(BgWake)

\* Registrations, lookups and deletions with the sync cycles between them.
NextId ==
    \/ NetDown \/ NetUp
    \/ CallGetUser \/ CallRegister \/ CallDelete \/ CallForceSync
    \/ Check \/ Synced \/ GetUserBody \/ RegisterExists \/ RegisterNextId
    \/ AddUserBody \/ DeleteBody \/ ForceSyncBody \/ Return
    \/ BgWake \/ BgProbe \/ BgReconnect
    \/ \E t \in Threads :
         PushLoad(t) \/ PushIds(t) \/ PushSave(t) \/ PullLoad(t) \/ PullFetch(t) \/ PullSave(t)

SpecId == Init /\ [][NextId]_vars

SpecIdSteady == InitSteady /\ [][NextId]_vars

\* An identity is deleted from the remote store by another installation
\* (the admin tool connected to the same MongoDB) while this device has no
\* connection.
RemoteDelete ==
    /\ ~net
    /\ Idle("main") /\ Idle("bg")
    /\ \E k \in Keys :
         /\ (mongo.students[k] # 0 \/ mongo.teachers[k] # 0)
         /\ mongo' = DeleteRemote(mongo, k)
    /\ UNCHANGED tap
    /\ UNCHANGED aux
    /\ UNCHANGED <<env, use_mongodb, file, pc, after, frame, locals, hist>>

\* The identity operations with every remote call answering while the
\* store is reachable, and deletions made elsewhere.
SpecRemote == InitSteady /\ [][(
        NextId \/ RemoteDelete
        )]_vars

\* Registrations with typed ids, two badges, deletions: one operation
\* more than MaxOps, for a registration, a deletion and a registration.
InitManual == InitCommon("steady") /\ budget = MaxOps + 1 /\ badges = Keys

SpecManual == InitManual /\ [][(
        \/ NetDown \/ NetUp
        \/ CallRegisterManual \/ CallDelete
        \/ Check \/ Synced \/ RegisterExists \/ RegisterNextId \/ ManualIdBody
        \/ AddUserBody \/ DeleteBody \/ Return
        \/ BgWake \/ BgProbe \/ BgReconnect
        \/ \E t \in Threads :
             PushLoad(t) \/ PushIds(t) \/ PushSave(t) \/ PullLoad(t) \/ PullFetch(t) \/ PullSave(t)
        )]_vars

\* The classifier alone: any clock reading against any fetched schedule.
InitClassify ==
    /\ InitStores("steady")
    /\ budget = 0
    /\ badges = {"k1"}
    /\ current_state = "IDLE"
    /\ scan = NoScan
    /\ arrival \in {<<h, m, sec>> : h \in {6, 7, 8, 17}, m \in {0, 20, 29, 30}, sec \in {0, 1}}
    /\ schedule_data \in Schedules
    /\ status = "none"
    /\ decline = "none"
    /\ AuxIdle

ValidateTapTime ==
    /\ decline' = validate_tap_time(arrival, schedule_data)
    /\ UNCHANGED <<env, use_mongodb, mongo, file, pc, after, frame, locals, hist,
                   current_state, scan, arrival, schedule_data, status, aux>>

CalculateAttendanceStatus ==
    /\ status' = calculate_attendance_status(arrival, schedule_data)
    /\ UNCHANGED <<env, use_mongodb, mongo, file, pc, after, frame, locals, hist,
                   current_state, scan, arrival, schedule_data, decline, aux>>

SpecClassify == InitClassify /\ [][(
        ValidateTapTime \/ CalculateAttendanceStatus
        )]_vars

\* The scan path: badge k1 is a registered student (id 1) in both stores,
\* badge k2 is not registered.
InitScan ==
    /\ sched = "atomic"
    /\ net \in BOOLEAN
    /\ today = 1
    /\ mongo = [students |-> [NoUsers EXCEPT !["k1"] = 1], teachers |-> NoUsers,
                attendance |-> [e \in Events |-> 0]]
    /\ use_mongodb \in CallOutcomes
    /\ file = [_empty_structure EXCEPT !.students = [NoUsers EXCEPT !["k1"] = 1]]
    /\ pc = [t \in Threads |-> IF t = "main" THEN "idle" ELSE "wait"]
    /\ after = [t \in Threads |-> "none"]
    /\ frame = NoFrame
    /\ data = [t \in Threads |-> _empty_structure]
    /\ idx = [t \in Threads |-> 0]
    /\ still_pending = [t \in Threads |-> <<>>]
    /\ kept = [t \in Threads |-> {}]
    /\ admitted = {}
    /\ offline_reg = {}
    /\ TapIdle
    /\ AuxIdle
    /\ budget = -1
    /\ badges = Keys

SpecScan == InitScan /\ [][(
        \/ NetDown \/ NetUp \/ NextDay
        \/ ReadCard \/ ScanLookup \/ ScanLookupRet \/ ScanIsLogged \/ ScanIsLoggedRet
        \/ ScanDetect \/ ScanFail \/ ScanPhoto \/ ScanSave \/ ScanSaveRet \/ ScanSuccess
        \/ ScanRaise
        \/ Check \/ Synced \/ GetUserBody \/ IsLoggedBody \/ SaveCheckLogged \/ SaveBody
        \/ BgWake \/ BgProbe \/ BgReconnect
        \/ Sync
        )]_vars

\* The identity tables of one badge with any ids up to MaxId.
TablesOf(k) ==
    {[students |-> [NoUsers EXCEPT ![k] = a], teachers |-> [NoUsers EXCEPT ![k] = b]] :
        a \in 0..MaxId, b \in 0..MaxId}

\* get_next_tamtap_id on stores left by earlier runs and by the
\* registration tools that share the file and the remote database: any
\* ids in the tables of either store, any stored next_tamtap_id.
InitAlloc ==
    /\ sched = "steady"
    /\ net \in BOOLEAN
    /\ today = 1
    /\ \E r \in TablesOf("k1") :
         mongo = [students |-> r.students, teachers |-> r.teachers,
                  attendance |-> [e \in Events |-> 0]]
    /\ use_mongodb = FALSE
    /\ \E l \in TablesOf("k2"), c \in 1..(MaxId + 1) :
         file = [_empty_structure EXCEPT !.students = l.students,
                                         !.teachers = l.teachers,
                                         !.next_tamtap_id = c]
    /\ pc = [t \in Threads |-> IF t = "main" THEN "idle" ELSE "wait"]
    /\ after = [t \in Threads |-> "none"]
    /\ frame = NoFrame
    /\ data = [t \in Threads |-> _empty_structure]
    /\ idx = [t \in Threads |-> 0]
    /\ still_pending = [t \in Threads |-> <<>>]
    /\ kept = [t \in Threads |-> {}]
    /\ admitted = {}
    /\ offline_reg = {}
    /\ TapIdle
    /\ AuxIdle
    /\ budget = 1
    /\ badges = {"k1"}

SpecAlloc == InitAlloc /\ [][(
        \/ NetDown \/ NetUp
        \/ CallGetNext \/ Check \/ Synced \/ GetNextBody \/ Return
        \/ \E t \in Threads :
             PushLoad(t) \/ PushIds(t) \/ PushSave(t) \/ PullLoad(t) \/ PullFetch(t) \/ PullSave(t)
        )]_vars

\* _load_json on every kind of file. An object holds any subset of the
\* six keys, with the values of a new file or of a file in use.
UsedStructure ==
    [students |-> [k \in Keys |-> IF k = "k1" THEN 1 ELSE 0],
     teachers |-> NoUsers,
     attendance |-> <<>>, pending_attendance |-> <<Event("k1", 1)>>,
     next_tamtap_id |-> 2, last_sync |-> 1]

InitLoad ==
    /\ sched = "steady"
    /\ net = FALSE
    /\ today = 1
    /\ mongo = [students |-> NoUsers, teachers |-> NoUsers,
                attendance |-> [e \in Events |-> 0]]
    /\ use_mongodb = FALSE
    /\ json_kind \in {"missing", "unreadable", "truncated", "not_object", "object"}
    /\ file \in (IF json_kind = "object"
                 THEN {[k \in S |-> base[k]] :
                         S \in SUBSET (DOMAIN _empty_structure),
                         base \in {_empty_structure, UsedStructure}}
                 ELSE {<<>>})
    /\ pc = [t \in Threads |-> IF t = "main" THEN "idle" ELSE "wait"]
    /\ after = [t \in Threads |-> "none"]
    /\ frame = NoFrame
    /\ data = [t \in Threads |-> _empty_structure]
    /\ idx = [t \in Threads |-> 0]
    /\ still_pending = [t \in Threads |-> <<>>]
    /\ kept = [t \in Threads |-> {}]
    /\ admitted = {}
    /\ offline_reg = {}
    /\ TapIdle
    /\ stop = FALSE
    /\ disk_faults = FALSE
    /\ issued_max = 0
    /\ btn = NoButtons
    /\ arch = NoArchive
    /\ budget = 1
    /\ badges = {"k1"}

\* data = self._load_json()
LoadJson ==
    /\ pc["main"] = "idle"
    /\ LET got == _load_json(json_kind, file) IN
         /\ data' = [data EXCEPT !["main"] = got.data]
         /\ frame' = [frame EXCEPT !.op = "_load_json",
                                   !.ret = IF got.raised THEN "raised" ELSE "returned"]
    /\ Goto("main", "ret")
    /\ UNCHANGED tap
    /\ UNCHANGED aux
    /\ UNCHANGED <<env, use_mongodb, mongo, file, after, idx, still_pending, kept, hist>>

SpecLoad == InitLoad /\ [][LoadJson]_vars

\* ------------------------------------------------- tamtap_admin.py
\* sync_to_mongodb(db) of the admin tool, through db.is_connected().
CallAdminSync == Call("sync_to_mongodb", NoKey, "student")

\* The sets of positions of a list of n records whose remote call raises.
FailureSets(n) ==
    IF ~net THEN {1..n} ELSE IF Steady THEN {{}} ELSE SUBSET (1..n)

\* The loop of sync_to_mongodb from position i, F the positions that
\* raise: insert_one(record), an exception is passed over.
RECURSIVE AdminRemote(_, _, _, _)
AdminRemote(m, pending, F, i) ==
    IF i > Len(pending) THEN m
    ELSE AdminRemote(IF i \in F THEN m ELSE InsertAttendance(m, pending[i]),
                     pending, F, i + 1)

\* The attendance loop of _push_pending_to_mongodb from position i, F the
\* positions that raise: the remote store after it and still_pending.
RECURSIVE PushRemote(_, _, _, _)
PushRemote(m, pending, F, i) ==
    IF i > Len(pending) THEN m
    ELSE PushRemote(PushRecord(m, pending[i], i \notin F), pending, F, i + 1)

RECURSIVE PushStill(_, _, _, _)
PushStill(still, pending, F, i) ==
    IF i > Len(pending) THEN still
    ELSE PushStill(StillPending(still, pending[i], i \notin F), pending, F, i + 1)

\* sync_to_mongodb after db.is_connected(): nothing when not connected or
\* when nothing is pending; else the inserts, and the file is saved with an
\* empty queue when one insert went through.
AdminSyncBody ==
    /\ pc["main"] = "body"
    /\ frame.op = "sync_to_mongodb"
    /\ IF ~frame.conn \/ file.pending_attendance = <<>>
       THEN UNCHANGED <<mongo, file, kept>>
       ELSE \E F \in FailureSets(Len(file.pending_attendance)) :
              LET pending == file.pending_attendance IN
              /\ mongo' = AdminRemote(mongo, pending, F, 1)
              /\ kept' = [kept EXCEPT !["main"] = F]
              /\ IF (1..Len(pending)) \ F # {}
                 THEN \E w \in WriteOutcomes :
                        file' = _save_json(file,
                                  [file EXCEPT !.pending_attendance = <<>>], w)
                 ELSE file' = file
    /\ frame' = [frame EXCEPT !.ret = "None"]
    /\ Goto("main", "ret")
    /\ UNCHANGED tap
    /\ UNCHANGED aux
    /\ UNCHANGED <<env, use_mongodb, after, data, idx, still_pending, hist>>

\* Taps of two badges, the operator's sync and force_sync.
SpecAdmin == InitTwo /\ [][(
        \/ NetDown \/ NetUp
        \/ CallSave \/ CallAdminSync \/ CallForceSync
        \/ Check \/ Synced \/ SaveCheckLogged \/ SaveBody \/ AdminSyncBody
        \/ ForceSyncBody \/ Return
        \/ Sync
        )]_vars

\* Registrations only (no deletion), two badges, with the sync cycles
\* between them.
SpecReg == InitTwo /\ [][(
        \/ NetDown \/ NetUp
        \/ CallRegister \/ CallForceSync
        \/ Check \/ Synced \/ RegisterExists \/ RegisterNextId
        \/ AddUserBody \/ ForceSyncBody \/ Return
        \/ BgWake \/ BgProbe \/ BgReconnect
        \/ \E t \in Threads :
             PushLoad(t) \/ PushIds(t) \/ PushSave(t) \/ PullLoad(t) \/ PullFetch(t) \/ PullSave(t)
        )]_vars

\* Every operation of the store, MaxOps of them.
Spec == InitCommon("atomic") /\ budget = MaxOps /\ badges = {"k1"} /\ [][(
        \/ NetDown \/ NetUp \/ NextDay
        \/ CallIsLogged \/ CallSave \/ CallForceSync
        \/ CallGetUser \/ CallRegister \/ CallDelete
        \/ Check \/ Synced \/ IsLoggedBody \/ SaveCheckLogged \/ SaveBody
        \/ GetUserBody \/ RegisterExists \/ RegisterNextId \/ AddUserBody
        \/ DeleteBody \/ ForceSyncBody \/ Return
        \/ BgWake \/ BgProbe \/ BgReconnect
        \/ Sync
        )]_vars

\* ------------------------------------------------------------ properties
\* Both threads are between operations.
Quiescent == pc["main"] = "idle" /\ pc["bg"] = "wait"

LocalEvents(f) == f.attendance \o f.pending_attendance

\* Number of records of a list with the badge key and day of e.
CountIn(seq, e) == Cardinality({i \in 1..Len(seq) : seq[i] = e})

C2_SecondCallRejected ==
    (/\ pc["main"] = "ret"
     /\ frame.op = "save_attendance"
     /\ Event(frame.key, today) \in admitted)
        => frame.ret = "False"

\* C3: an event appended by save_attendance is never erased by the
\* snapshot rewrite of a push or pull running in the other thread: every
\* admitted event is still in the local cache or in the remote store.
C3_NoLostUpdate ==
    \A e \in admitted :
        CountIn(LocalEvents(file), e) > 0 \/ mongo.attendance[e] > 0

\* C4: when the remote calls of the operation fail, save_attendance
\* returns success with the event appended to the pending queue, and
\* get_user and is_already_logged_today answer from the local cache alone.
C4_RemoteDownTransparent ==
    [][(pc["main"] = "body" /\ pc'["main"] # "body" /\ ~frame.conn) =>
        /\ frame.op = "get_user" =>
              frame'.ret = Lookup(file.students, file.teachers, frame.key)
        /\ frame.op = "is_already_logged_today" =>
              frame'.ret = IF LocalLogged(file, frame.key, today) THEN "True" ELSE "False"
        /\ (frame.op = "save_attendance" /\ frame.phase = 1) =>
              IF LocalLogged(file, frame.key, today)
              THEN frame'.ret = "False" /\ file' = file
              ELSE pc'["main"] = "check" /\ file' = file
        /\ (frame.op = "save_attendance" /\ frame.phase = 2) =>
              /\ frame'.ret = "True"
              /\ mongo' = mongo
              /\ file'.attendance = file.attendance
              /\ file'.pending_attendance =
                     Append(file.pending_attendance, Event(frame.key, today))
      ]_vars

C4_Witness ==
    /\ pc["main"] = "ret"
    /\ frame.op = "save_attendance"
    /\ frame.ret = "True"
    /\ ~frame.conn
    /\ ~net
    /\ InList(file.pending_attendance, frame.key, today)
    /\ mongo.attendance[Event(frame.key, today)] = 0

\* C5: after a force_sync that succeeded, every remote call answering, the
\* remote store and the local cache hold the same events of the day, with
\* the same count.
C5_PushPullConvergence ==
    (/\ pc["main"] = "ret"
     /\ frame.op = "force_sync"
     /\ frame.ret = "True")
        => \A e \in Events :
              e.date = today =>
                 mongo.attendance[e] = CountIn(LocalEvents(file), e)

\* The records of seq at the positions in I, in their order in seq.
RECURSIVE AtPositions(_, _, _)
AtPositions(seq, I, i) ==
    IF i > Len(seq) THEN <<>>
    ELSE (IF i \in I THEN <<seq[i]>> ELSE <<>>) \o AtPositions(seq, I, i + 1)

\* C6: the file written at the end of a push holds in its pending queue
\* exactly the previously queued events whose remote step failed, in
\* their original order, and every removed event is in the remote store.
C6_PushKeepsFailed ==
    [][\A t \in Threads :
          (pc[t] = "push_save" /\ pc'[t] = "pull_load") =>
             /\ file'.pending_attendance =
                    AtPositions(file.pending_attendance, kept[t], 1)
             /\ \A i \in 1..Len(file.pending_attendance) :
                    i \notin kept[t] =>
                        mongo.attendance[file.pending_attendance[i]] > 0
      ]_vars

C6_Witness ==
    \E t \in Threads :
        /\ pc[t] = "push_save"
        /\ Len(file.pending_attendance) = 2
        /\ kept[t] = {2}
        /\ still_pending[t] = <<file.pending_attendance[2]>>
        /\ mongo.attendance[file.pending_attendance[1]] > 0

Resolves(students, teachers, k) == Lookup(students, teachers, k) # "None"

\* C7: an identity registered while disconnected, and not deleted since,
\* is in a store after any later sync cycle.
C7_OfflineRegistrationKept ==
    Quiescent =>
        \A k \in offline_reg :
            \/ Resolves(file.students, file.teachers, k)
            \/ Resolves(mongo.students, mongo.teachers, k)

\* C8: a pull leaves the attendance list, the pending queue and the
\* stored next_tamtap_id of the local file as they were.
C8_PullFrame ==
    [][\A t \in Threads :
          (pc[t] = "pull_save" /\ pc'[t] # "pull_save") =>
             /\ file'.attendance = file.attendance
             /\ file'.pending_attendance = file.pending_attendance
             /\ file'.next_tamtap_id = file.next_tamtap_id
      ]_vars

C8_Witness ==
    \E t \in Threads :
        /\ pc[t] = "pull_save"
        /\ Len(file.pending_attendance) > 0
        /\ data[t].students # file.students
        /\ data[t].last_sync # file.last_sync

\* The identities of a store with their tamtap_id.
Identities(students, teachers) ==
    {<<"student", k, students[k]>> : k \in {x \in Keys : students[x] # 0}}
    \cup {<<"teacher", k, teachers[k]>> : k \in {x \in Keys : teachers[x] # 0}}

AllIdentities ==
    Identities(mongo.students, mongo.teachers)
    \cup Identities(file.students, file.teachers)

\* C9: no two identities, students and teachers together and in either
\* store, have the same tamtap_id when every id comes from
\* get_next_tamtap_id.
C9_NoSharedSequenceId ==
    \A a, b \in AllIdentities :
        a[3] = b[3] => (a[1] = b[1] /\ a[2] = b[2])

C9_Witness ==
    /\ Quiescent
    /\ file.last_sync # 0
    /\ \E a, b \in Identities(mongo.students, mongo.teachers) :
          /\ a[2] # b[2]
          /\ a[2] \in offline_reg
          /\ a[3] # b[3]

\* C10: no badge key is in the students and in the teachers table of the
\* same store.
C10_BadgeKeyOneRole ==
    \A k \in Keys :
        /\ ~(file.students[k] # 0 /\ file.teachers[k] # 0)
        /\ ~(mongo.students[k] # 0 /\ mongo.teachers[k] # 0)

\* The badge key of the running call is in a table of the store.
InTables(store, k) == store.students[k] # 0 \/ store.teachers[k] # 0

\* C11: a registration whose badge key resolves to an identity (in the
\* JSON cache when disconnected, in the remote store and the cache when
\* connected) is rejected, and the rejection writes to neither store.
C11_DuplicateKeyRejected ==
    [][(/\ pc["main"] = "body"
        /\ frame.op = "register"
        /\ frame.phase = 1
        /\ InTables(file, frame.key)
        /\ (frame.conn => InTables(mongo, frame.key))
        /\ pc'["main"] # "body")
          => /\ frame'.ret = "DuplicateKey"
             /\ pc'["main"] = "ret"
             /\ file' = file
             /\ mongo' = mongo
      ]_vars

C11_Witness ==
    /\ pc["main"] = "ret"
    /\ frame.op = "register"
    /\ frame.ret = "DuplicateKey"
    /\ frame.role = "student"
    /\ file.teachers[frame.key] # 0
    /\ file.students[frame.key] = 0

\* C12: a registration never completes with a typed id that an identity
\* of another badge holds in either store.
C12_ManualIdRejected ==
    (/\ pc["main"] = "ret"
     /\ frame.op = "register"
     /\ frame.manual # 0
     /\ frame.ret = "True")
        => \A x \in AllIdentities : x[3] = frame.manual => x[2] = frame.key

\* The largest id get_next_tamtap_id observes in the remote store: none
\* when its _check_mongodb failed.
ObservedRemoteMax ==
    IF frame.conn THEN TableMax(mongo.students, mongo.teachers) ELSE 0

GetNextStep ==
    /\ pc["main"] = "body"
    /\ frame.op = "get_next_tamtap_id"
    /\ pc'["main"] = "ret"

\* C13 as stated: get_next_tamtap_id returns
\* max(remote max, local max, stored counter) + 1.
C13_MaxPlusOne ==
    [][GetNextStep =>
          frame'.tid = MaxOf({ObservedRemoteMax,
                              TableMax(file.students, file.teachers),
                              file.next_tamtap_id}) + 1
      ]_vars

\* C13, amended: get_next_tamtap_id returns the larger of the stored
\* next_tamtap_id and one more than the largest id observed in the remote
\* store and in the JSON tables.
C13_MaxOfNextAndStored ==
    [][GetNextStep =>
          frame'.tid = MaxOf({ObservedRemoteMax + 1,
                              TableMax(file.students, file.teachers) + 1,
                              file.next_tamtap_id})
      ]_vars

C13_Witness ==
    /\ pc["main"] = "ret"
    /\ frame.op = "get_next_tamtap_id"
    /\ frame.conn
    /\ TableMax(mongo.students, mongo.teachers) > 0
    /\ file.next_tamtap_id > TableMax(mongo.students, mongo.teachers) + 1
    /\ frame.tid = file.next_tamtap_id

\* A clock reading in seconds since midnight.
Seconds(t) ==
    IF t = NoTime THEN 0
    ELSE t[1] * 3600 + (IF Len(t) > 1 THEN t[2] * 60 ELSE 0)
                     + (IF Len(t) > 2 THEN t[3] ELSE 0)

\* A schedule with a session today.
HasSession(sd) == sd.fetched /\ sd.today /\ sd.start # NoTime

\* C14: for a schedule with a session, the status is on_time up to and
\* including start + grace, late up to and including start + absent
\* threshold, absent later; 07:20:01 against 07:00 + 20 is late.
C14_StatusByCutoff ==
    (HasSession(schedule_data) /\ status # "none") =>
        status = IF Seconds(arrival) <= Seconds(schedule_data.start) + 60 * schedule_data.grace
                 THEN "on_time"
                 ELSE IF Seconds(arrival) <= Seconds(schedule_data.start) + 60 * schedule_data.absent
                 THEN "late"
                 ELSE "absent"

\* C15: for a fetched schedule, validate_tap_time answers NO_CLASSES_TODAY
\* exactly without a session today, else TOO_EARLY exactly when the arrival
\* is earlier than start - 30 minutes, else CLASSES_ENDED exactly when the
\* arrival is later than end, and admits otherwise.
C15_DeclineReasons ==
    (schedule_data.fetched /\ decline # "none"
       /\ (HasSession(schedule_data) => schedule_data.end # NoTime)) =>
        decline = IF ~HasSession(schedule_data) THEN "NO_CLASSES_TODAY"
                  ELSE IF Seconds(arrival) < Seconds(schedule_data.start) - 60 * EARLY_BUFFER_MINUTES
                  THEN "TOO_EARLY"
                  ELSE IF Seconds(arrival) > Seconds(schedule_data.end)
                  THEN "CLASSES_ENDED"
                  ELSE "admit"

\* C16: when the fetch returned nothing, the decision and the status are
\* those of the schedule 07:00-17:00 with grace 20 and absent threshold 60.
C16_DefaultsOnFetchFailure ==
    ~schedule_data.fetched =>
        /\ decline # "none" => decline = validate_tap_time(arrival, DefaultSchedule)
        /\ status # "none" => status = calculate_attendance_status(arrival, DefaultSchedule)

\* save_attendance writes its record: insert_one and the backup, or the
\* pending queue.
SaveWrites ==
    /\ pc["main"] = "body"
    /\ frame.op = "save_attendance"
    /\ \/ mongo'.attendance # mongo.attendance
       \/ file'.attendance # file.attendance
       \/ file'.pending_attendance # file.pending_attendance

\* C17: the scan path writes an attendance event only for a tap that
\* validate_tap_time admits; for NO_CLASSES_TODAY, TOO_EARLY and
\* CLASSES_ENDED nothing is written.
C17_NoWriteOnPolicyDecline ==
    [][SaveWrites => validate_tap_time(arrival, schedule_data) = "admit"]_vars

\* C18: the scan path writes an attendance event only in a scan whose
\* lookup found the badge, whose is_already_logged_today answered False
\* and whose face detection and photo succeeded.
C18_WriteOnlyAfterChecks ==
    [][SaveWrites => (scan.found /\ scan.fresh /\ scan.face /\ scan.photo)]_vars

C18_Witness ==
    /\ scan.stage = "save"
    /\ pc["main"] = "ret"
    /\ frame.ret = "True"
    /\ scan.found /\ scan.fresh /\ scan.face /\ scan.photo
    /\ LocalLogged(file, scan.key, today)

\* C19: whenever the main loop is about to read the next card,
\* current_state is IDLE.
C19_IdleBetweenScans == scan.stage = "none" => current_state = "IDLE"

\* C20: after construction use_mongodb is set only if the connect
\* succeeded; it becomes set only in the step of a successful connect
\* (with its ping) by _check_mongodb's _connect_mongodb or by the reconnect
\* loop, and it is clear after every failed probe of either thread.
C20_ConnectionState ==
    /\ use_mongodb => net
    /\ [][/\ (~use_mongodb /\ use_mongodb') =>
               /\ net
               /\ \/ pc["main"] = "check" /\ pc'["main"] = "push_load"
                  \/ pc["bg"] = "reconnect" /\ pc'["bg"] = "push_load"
          /\ (pc["main"] = "check" /\ pc'["main"] # "check" /\ ~frame'.conn) => ~use_mongodb'
          /\ (pc["bg"] = "probe" /\ pc'["bg"] = "reconnect") => ~use_mongodb'
          /\ (pc["bg"] = "reconnect" /\ pc'["bg"] = "wait" /\ ~use_mongodb) => ~use_mongodb'
       ]_vars

C20_Witness ==
    /\ \E e \in Events : mongo.attendance[e] > 0
    /\ ~use_mongodb
    /\ ~net
    /\ pc["bg"] = "reconnect"
    /\ pc["main"] = "body"
    /\ ~frame.conn

\* The positions of a sync cycle: push, then pull.
PushStages == {"push_load", "push_att", "push_ins", "push_save"}
PullStages == {"pull_load", "pull_fetch", "pull_save"}

\* C21: the thread that sets use_mongodb starts a sync cycle in the same
\* step, a pull starts only where a push ended, and while the reconnect
\* loop runs the cycle it owes to its reconnect no operation of the scan
\* path passes its _check_mongodb and goes on to its work.
C21_SyncBeforeService ==
    [][/\ \A t \in Threads :
            /\ (pc[t] \notin PullStages /\ pc'[t] \in PullStages)
                  => pc[t] \in PushStages /\ pc'[t] = "pull_load"
            /\ (~use_mongodb /\ use_mongodb' /\ pc'[t] # pc[t]) => pc'[t] = "push_load"
       /\ (pc["bg"] \in PushStages \cup PullStages)
             => ~(pc["main"] = "check" /\ pc'["main"] = "body")
      ]_vars

\* C28: every id get_next_tamtap_id returns is larger than every id it
\* returned before.
C28_MonotoneIds ==
    [][(/\ pc["main"] = "body"
        /\ frame.op \in {"register", "get_next_tamtap_id"}
        /\ frame'.tid # frame.tid)
          => frame'.tid > issued_max]_vars

\* C27: when delete_user reports success, the badge key is in no identity
\* table of either store.
C27_DeletedFromBothStores ==
    [][(pc["main"] = "body" /\ frame.op = "delete_user" /\ frame'.ret = "True")
          => (~InTables(mongo', frame.key) /\ ~InTables(file', frame.key))]_vars

\* C30: a pull whose find calls answer takes both identity tables as the
\* remote collections are at that moment, and its save puts exactly these
\* tables into the JSON file.
C30_PullReplacesIdentities ==
    [][\A t \in Threads :
          /\ (pc[t] = "pull_fetch" /\ pc'[t] = "pull_save")
                => /\ data'[t].students = mongo.students
                   /\ data'[t].teachers = mongo.teachers
          /\ (pc[t] = "pull_save" /\ pc'[t] # "pull_save")
                => /\ file'.students = data[t].students
                   /\ file'.teachers = data[t].teachers
      ]_vars

C30_Witness ==
    \E t \in Threads, k \in Keys :
        /\ pc[t] = "pull_save"
        /\ InTables(file, k)
        /\ ~InTables(data[t], k)
        /\ ~InTables(mongo, k)

C25_CommittedEventStaysVisible ==
    [][(/\ pc["main"] = "body"
        /\ frame.op = "save_attendance"
        /\ frame'.ret = "True")
          => \/ LocalLogged(file', frame.key, today)
             \/ mongo'.attendance[Event(frame.key, today)] > 0]_vars

\* C22: once the stop event is set no wait of the reconnect loop starts a
\* probe or a reconnect, and the loop ends; the cycle that was under way
\* when the event was set runs to its end first.
C22_StopEndsLoop ==
    /\ [][stop => ~(pc["bg"] = "wait" /\ pc'["bg"] \in {"probe", "reconnect"})]_vars
    /\ (stop ~> pc["bg"] = "stopped")

C22_Witness ==
    /\ stop
    /\ pc["bg"] \in PushStages \cup PullStages

\* C23: the reconnect loop ends only at its wait and only with the stop
\* event set; whatever a ping, a connect, a push or a pull raises, the loop
\* comes back to its wait again and again.
C23_FailuresKeepLoop ==
    /\ [][(pc["bg"] # "stopped" /\ pc'["bg"] = "stopped") => (stop /\ pc["bg"] = "wait")]_vars
    /\ []<>(pc["bg"] \in {"wait", "stopped"})

C23_Witness ==
    /\ pc["bg"] = "wait"
    /\ after["bg"] = "wait"
    /\ net
    /\ ~use_mongodb
    /\ ~stop
    /\ admitted = {}

\* C24: _load_json never raises and what it returns has the keys students,
\* teachers, attendance, pending_attendance and next_tamtap_id; for a file
\* that is missing, unreadable, cut short or not a JSON object it returns
\* the empty structure.
C24_LoadNeverRaises ==
    (pc["main"] = "ret" /\ frame.op = "_load_json")
      => /\ frame.ret = "returned"
         /\ RequiredKeys \subseteq DOMAIN data["main"]
         /\ (json_kind # "object" => data["main"] = _empty_structure)

C24_Witness ==
    /\ pc["main"] = "ret"
    /\ frame.op = "_load_json"
    /\ json_kind = "truncated"
    /\ data["main"] = _empty_structure

\* C29: a run of sync_to_mongodb of the admin tool leaves the remote
\* attendance collection and the pending queue of the JSON file as the
\* attendance loop of _push_pending_to_mongodb leaves them, started from
\* the same stores with the same remote calls raising.
C29_AdminSyncAsPush ==
    [][(/\ pc["main"] = "body"
        /\ frame.op = "sync_to_mongodb"
        /\ frame.conn
        /\ file.pending_attendance # <<>>
        /\ pc'["main"] = "ret")
          => LET pending == file.pending_attendance
                 F == kept'["main"]
             IN /\ mongo'.attendance = PushRemote(mongo, pending, F, 1).attendance
                /\ file'.pending_attendance = PushStill(<<>>, pending, F, 1)]_vars

C32_PushInsertsOnce ==
    [][\A t \in Threads :
          (/\ pc[t] = "push_ins"
           /\ pc'[t] = "push_att"
           /\ pc[Other(t)] \in {"push_att", "push_ins", "push_save"})
             => \A e \in Events :
                   mongo'.attendance[e] > mongo.attendance[e] => mongo'.attendance[e] <= 1]_vars

\* C33: when from some point on the remote store is reachable and every
\* remote call succeeds, the pending queue of the JSON file is emptied.
C33_PendingDrains ==
    <>[](net /\ Steady) => <>(net /\ Steady /\ file.pending_attendance = <<>>)

\* C36: a pull in which students.find or teachers.find raised writes
\* nothing: the step that ends the fetch either hands complete tables and
\* the new last_sync to the save, or leaves the JSON file as it was and the
\* thread out of the pull with no write to come.
C36_FailedPullKeepsCache ==
    [][\A t \in Threads :
          (pc[t] = "pull_fetch" /\ pc'[t] # "pull_fetch")
             => \/ /\ pc'[t] = "pull_save"
                   /\ data'[t] = PullResult(data[t], mongo, today)
                \/ /\ pc'[t] = after[t]
                   /\ pc'[t] \notin {"pull_fetch", "pull_save"}
                   /\ file' = file]_vars

C36_Witness ==
    /\ pc["main"] = "synced"
    /\ use_mongodb
    /\ file.last_sync # today
    /\ InTables(mongo, "k1")
    /\ ~InTables(file, "k1")

\* C35: the identity step of a push inserts into the remote store only
\* identities that were registered on this device while it was
\* disconnected; an identity the remote store no longer holds is not put
\* back.
C35_PushKeepsRemoteDeletion ==
    [][\A t \in Threads :
          (pc[t] = "push_att" /\ pc'[t] = "push_save")
             => \A k \in Keys :
                   (InTables(mongo', k) /\ ~InTables(mongo, k)) => k \in offline_reg]_vars

\* ------------------------------------------------------ BUTTON CONTROLLER
\* SHUTDOWN_HOLD_SEC = 2.5, in half seconds.
SHUTDOWN_HOLD_SEC == 5

\* The clock readings the controller is followed through.
MaxClock == 7

\* The button actions leave the attendance stores alone.
ButtonsOnly ==
    /\ UNCHANGED tap
    /\ UNCHANGED <<stop, disk_faults, json_kind, issued_max, arch>>
    /\ UNCHANGED <<env, use_mongodb, mongo, file, pc, after, frame, locals, hist>>

\* The controller as main() finds it: the SHUTDOWN button up or already
\* held down, tamtap.service running or not.
InitButtons ==
    /\ InitStores("steady")
    /\ TapIdle
    /\ stop = FALSE
    /\ disk_faults = FALSE
    /\ json_kind = "ok"
    /\ issued_max = 0
    /\ btn \in {[NoButtons EXCEPT !.pressed = p, !.service = s] : p, s \in BOOLEAN}
    /\ arch = NoArchive
    /\ budget = 0
    /\ badges = {"k1"}

\* An acquire that succeeds whoever holds the lock.
Acquire_reentrant(lock, h) == [ok |-> TRUE, lock |-> h]

\* action_lock.acquire(blocking=False) by handler h.
Acquire(lock, h) ==
    IF lock = "free" THEN [ok |-> TRUE, lock |-> h] ELSE [ok |-> FALSE, lock |-> lock]

\* A duration test that takes every press for a long one.
LongPress_any(held_duration) == held_duration >= 0

\* held_duration < SHUTDOWN_HOLD_SEC cancels the shutdown.
LongPress(held_duration) == held_duration >= SHUTDOWN_HOLD_SEC

\* is_service_active: stdout == "active"; False when systemctl raised or
\* timed out.
is_service_active(service, raised) == ~raised /\ service

\* Half a second passes.
Tick ==
    /\ btn.clock < MaxClock
    /\ ~btn.halted
    /\ btn' = [btn EXCEPT !.clock = @ + 1]
    /\ ButtonsOnly

\* tamtap.service ends on its own.
ServiceExit ==
    /\ btn.service
    /\ ~btn.halted
    /\ btn' = [btn EXCEPT !.service = FALSE]
    /\ ButtonsOnly

\* on_start_pressed, to its first call: the press is dropped when the lock
\* is taken.
on_start_pressed ==
    /\ btn.at["start"] = "idle"
    /\ ~btn.halted
    /\ LET got == Acquire(btn.action_lock, "start") IN
       btn' = IF got.ok
              THEN [btn EXCEPT !.action_lock = got.lock, !.at["start"] = "probe"]
              ELSE [btn EXCEPT !.ignored = @ \cup {"start"}]
    /\ ButtonsOnly

\* on_restart_pressed, to its call of run_systemctl("restart").
on_restart_pressed ==
    /\ btn.at["restart"] = "idle"
    /\ ~btn.halted
    /\ LET got == Acquire(btn.action_lock, "restart") IN
       btn' = IF got.ok
              THEN [btn EXCEPT !.action_lock = got.lock, !.at["restart"] = "run"]
              ELSE [btn EXCEPT !.ignored = @ \cup {"restart"}]
    /\ ButtonsOnly

\* on_shutdown_held: shutdown_press_start = time().
on_shutdown_held ==
    /\ ~btn.pressed
    /\ btn.at["shutdown"] = "idle"
    /\ ~btn.halted
    /\ btn' = [btn EXCEPT !.pressed = TRUE, !.shutdown_press_start = btn.clock,
                          !.down_at = btn.clock]
    /\ ButtonsOnly

\* on_shutdown_released, to its first call: nothing without a recorded
\* press; the duration test; the lock.
on_shutdown_released ==
    /\ btn.pressed
    /\ btn.at["shutdown"] = "idle"
    /\ ~btn.halted
    /\ LET held == btn.clock - btn.shutdown_press_start
           real == IF btn.down_at = 0 THEN 0 ELSE btn.clock - btn.down_at
           got == Acquire(btn.action_lock, "shutdown")
           up == [btn EXCEPT !.pressed = FALSE, !.down_at = 0, !.real_held = real]
       IN btn' = IF btn.shutdown_press_start = 0
                 THEN up
                 ELSE IF ~LongPress(held)
                 THEN [up EXCEPT !.shutdown_press_start = 0, !.held_duration = held]
                 ELSE IF ~got.ok
                 THEN [up EXCEPT !.shutdown_press_start = 0, !.held_duration = held,
                                 !.ignored = @ \cup {"shutdown"}]
                 ELSE [up EXCEPT !.shutdown_press_start = 0, !.held_duration = held,
                                 !.action_lock = got.lock, !.at["shutdown"] = "probe",
                                 !.active = FALSE, !.stopped = FALSE]
    /\ ButtonsOnly

\* The handler's "if is_service_active()": START returns when the service
\* runs, SHUTDOWN goes to shutdown_os when it does not.
ServiceProbe(h) ==
    /\ btn.at[h] = "probe"
    /\ \E raised \in BOOLEAN :
         LET answer == is_service_active(btn.service, raised) IN
         btn' = IF h = "start"
                THEN IF answer
                     THEN [btn EXCEPT !.at[h] = "idle", !.action_lock = "free"]
                     ELSE [btn EXCEPT !.at[h] = "run"]
                ELSE [btn EXCEPT !.active = answer,
                                 !.at[h] = IF answer THEN "run" ELSE "os"]
    /\ ButtonsOnly

\* A failed stop that goes on to the shutdown.
AfterSystemctl_proceed(h, ok) == IF h = "shutdown" THEN "wait" ELSE "idle"

\* Where the handler is after run_systemctl: START and RESTART return;
\* SHUTDOWN waits for the service when the stop went through and returns
\* when it did not.
AfterSystemctl(h, ok) == IF h = "shutdown" /\ ok THEN "wait" ELSE "idle"

\* run_systemctl(action): True when systemctl returned 0, False when it
\* failed, timed out or raised; the finally releases the lock of a handler
\* that returns.
run_systemctl(h) ==
    /\ btn.at[h] = "run"
    /\ \E ok \in BOOLEAN :
         LET action == IF h = "shutdown" THEN "stop" ELSE h
             next == AfterSystemctl(h, ok)
         IN btn' = [btn EXCEPT
                      !.service = IF ok THEN action # "stop" ELSE @,
                      !.stopped = IF h = "shutdown" THEN ok ELSE @,
                      !.at[h] = next,
                      !.action_lock = IF next = "idle" THEN "free" ELSE @]
    /\ ButtonsOnly

\* The wait for the service to stop: ten probes, half a second apart, at
\* most.
WaitStopped ==
    /\ btn.at["shutdown"] = "wait"
    /\ btn' = [btn EXCEPT !.at["shutdown"] = "os"]
    /\ ButtonsOnly

\* shutdown_os, then the finally of on_shutdown_released.
shutdown_os ==
    /\ btn.at["shutdown"] = "os"
    /\ \E ok \in BOOLEAN :
         btn' = [btn EXCEPT !.halted = ok, !.at["shutdown"] = "idle",
                            !.action_lock = "free"]
    /\ ButtonsOnly

\* What a running handler does next.
HandlerStep ==
    \/ \E h \in {"start", "shutdown"} : ServiceProbe(h)
    \/ \E h \in Handlers : run_systemctl(h)
    \/ WaitStopped
    \/ shutdown_os

\* Every subprocess call of a handler has a timeout, so a running handler
\* takes its next step.
SpecButtons == InitButtons /\ [][(
        \/ Tick \/ ServiceExit
        \/ on_start_pressed \/ on_restart_pressed
        \/ on_shutdown_held \/ on_shutdown_released
        \/ HandlerStep
        )]_vars /\ WF_vars(HandlerStep)

C38_OneActionAtATime ==
    /\ [](\A h \in Handlers : btn.at[h] # "idle" => btn.action_lock = h)
    /\ [][\A h \in Handlers :
            (h \in btn'.ignored /\ h \notin btn.ignored)
            => /\ btn.action_lock \notin {"free", h}
               /\ btn'.action_lock = btn.action_lock
               /\ btn'.at = btn.at
               /\ btn'.service = btn.service
               /\ btn'.halted = btn.halted]_vars
    /\ ((btn.action_lock # "free") ~> (btn.action_lock = "free"))

C38_Witness ==
    /\ btn.ignored = Handlers
    /\ btn.action_lock = "free"
    /\ btn.service

\* ----------------------------------------------------------- ARCHIVE TOOL
\* The nfc_filter of a call: NoKey stands for no filter.
Matches(flt, r) == flt = NoKey \/ r.nfc_id = flt

\* The records of a JSON list.
ListRecords(seq) == {seq[i] : i \in 1..Len(seq)}

\* get_attendance_records: the remote collection when _check_mongodb
\* answered True and find did not raise; otherwise attendance and
\* pending_attendance of the JSON file.
RecordsFound(conn, ok, m, f, flt) ==
    IF conn /\ ok
    THEN {e \in Events : Matches(flt, e) /\ m.attendance[e] > 0}
    ELSE {e \in ListRecords(f.attendance) \cup ListRecords(f.pending_attendance) :
            Matches(flt, e)}

\* attendance.delete_many(query)
ClearedRemote(m, flt) ==
    [m EXCEPT !.attendance = [e \in Events |-> IF Matches(flt, e) THEN 0 ELSE @[e]]]

\* The list comprehensions of clear_attendance over both JSON lists.
ClearedLocal(f, flt) ==
    LET keep(r) == ~Matches(flt, r) IN
    [f EXCEPT !.attendance = SelectSeq(@, keep),
              !.pending_attendance = SelectSeq(@, keep)]

\* The archive steps leave the rest of the auxiliary state alone.
ArchiveOnly == UNCHANGED <<stop, disk_faults, json_kind, issued_max, btn>>

\* A tap is saved while no archive call runs.
ArchSave == arch.stage = "none" /\ CallSave

\* archive_records calls db.get_attendance_records.
CallGetRecords ==
    /\ arch.stage = "none"
    /\ \E flt \in {NoKey} \cup badges : Call("get_attendance_records", flt, "student")

\* get_attendance_records after its _check_mongodb; archive_records
\* returns False when there is nothing to archive.
GetRecordsBody ==
    /\ pc["main"] = "body"
    /\ frame.op = "get_attendance_records"
    /\ \E ok \in (IF frame.conn THEN CallOutcomes ELSE {FALSE}) :
         LET records == RecordsFound(frame.conn, ok, mongo, file, frame.key) IN
         arch' = IF records = {}
                 THEN NoArchive
                 ELSE [NoArchive EXCEPT !.stage = "read", !.filter = frame.key,
                                        !.records = records]
    /\ frame' = [frame EXCEPT !.ret = "True"]
    /\ Goto("main", "ret")
    /\ UNCHANGED tap
    /\ ArchiveOnly
    /\ UNCHANGED <<env, use_mongodb, mongo, file, after, locals, hist>>

\* The confirmation was given: db.archive_to_mongodb(records, archive_name).
CallArchiveMongo ==
    /\ arch.stage = "read"
    /\ Call("archive_to_mongodb", arch.filter, "student")

\* archive_to_mongodb after its _check_mongodb: insert_one of the archive
\* document; (False, 0) when not connected or when it raised.
ArchiveMongoBody ==
    /\ pc["main"] = "body"
    /\ frame.op = "archive_to_mongodb"
    /\ \E ok \in (IF frame.conn THEN CallOutcomes ELSE {FALSE}) :
         arch' = [arch EXCEPT !.stage = "to_mongo", !.success_mongo = ok]
    /\ frame' = [frame EXCEPT !.ret = "True"]
    /\ Goto("main", "ret")
    /\ UNCHANGED tap
    /\ ArchiveOnly
    /\ UNCHANGED <<env, use_mongodb, mongo, file, after, locals, hist>>

\* archive_to_json writes the archive file; then "if success_mongo or
\* success_json", else "Archive failed".
ArchiveJson ==
    /\ arch.stage = "to_mongo"
    /\ pc["main"] = "idle"
    /\ \E w \in WriteOutcomes :
         LET success_json == w = "written" IN
         arch' = IF arch.success_mongo \/ success_json
                 THEN [arch EXCEPT !.stage = "archived", !.success_json = success_json]
                 ELSE NoArchive
    /\ UNCHANGED tap
    /\ ArchiveOnly
    /\ UNCHANGED <<env, use_mongodb, mongo, file, pc, after, frame, locals, hist>>

\* The operator answers "n" to "Clear these records from active database?".
KeepActive ==
    /\ arch.stage = "archived"
    /\ pc["main"] = "idle"
    /\ arch' = NoArchive
    /\ UNCHANGED tap
    /\ ArchiveOnly
    /\ UNCHANGED <<env, use_mongodb, mongo, file, pc, after, frame, locals, hist>>

\* db.clear_attendance(date_filter, nfc_filter, section_filter)
CallClear ==
    /\ arch.stage = "archived"
    /\ Call("clear_attendance", arch.filter, "student")

\* clear_attendance after its _check_mongodb: delete_many when connected
\* (an exception is logged), then both JSON lists and _save_json.
ClearBody ==
    /\ pc["main"] = "body"
    /\ frame.op = "clear_attendance"
    /\ \E ok \in (IF frame.conn THEN CallOutcomes ELSE {FALSE}) :
         mongo' = IF ok THEN ClearedRemote(mongo, frame.key) ELSE mongo
    /\ \E w \in WriteOutcomes :
         file' = _save_json(file, ClearedLocal(file, frame.key), w)
    /\ arch' = [arch EXCEPT !.stage = "cleared"]
    /\ frame' = [frame EXCEPT !.ret = "True"]
    /\ Goto("main", "ret")
    /\ UNCHANGED tap
    /\ ArchiveOnly
    /\ UNCHANGED <<env, use_mongodb, after, locals, hist>>

\* archive_records returns True.
ArchiveDone ==
    /\ arch.stage = "cleared"
    /\ pc["main"] = "idle"
    /\ arch' = NoArchive
    /\ UNCHANGED tap
    /\ ArchiveOnly
    /\ UNCHANGED <<env, use_mongodb, mongo, file, pc, after, frame, locals, hist>>

\* Taps and archive calls on one installation; the connection changes
\* between two methods of Database and every call that is made answers.
SpecArchive == InitSteady /\ [][(
        \/ NetDown \/ NetUp \/ NextDay
        \/ ArchSave \/ Check \/ Synced \/ SaveCheckLogged \/ SaveBody \/ Return
        \/ SyncOf("main")
        \/ CallGetRecords \/ GetRecordsBody \/ CallArchiveMongo \/ ArchiveMongoBody
        \/ ArchiveJson \/ KeepActive \/ CallClear \/ ClearBody \/ ArchiveDone
        )]_vars

\* The number of copies of record e in a JSON list.
Copies(seq, e) == Cardinality({i \in 1..Len(seq) : seq[i] = e})

\* C37: the step of clear_attendance inside archive_records removes a
\* record from the remote collection, the local attendance list or the
\* local pending queue only if the record is among those the same call
\* read and wrote to an archive destination that reported success.
C37_ClearsOnlyArchived ==
    [][(pc["main"] = "body" /\ frame.op = "clear_attendance" /\ pc'["main"] = "ret")
        => \A e \in Events :
             (\/ mongo'.attendance[e] < mongo.attendance[e]
              \/ Copies(file'.attendance, e) < Copies(file.attendance, e)
              \/ Copies(file'.pending_attendance, e) < Copies(file.pending_attendance, e))
             => /\ e \in arch.records
                /\ (arch.success_mongo \/ arch.success_json)]_vars

====
